---------------------------- MODULE Spec2Model ----------------------------
(***************************************************************************)
(* Payment reconciliation engine: the five-phase MatchingEngine of         *)
(* app/services/matching.py, the store it reads and writes, and the        *)
(* POST /reconcile requests that drive it.                                 *)
(*                                                                         *)
(* Money is counted in cents (Numeric(18, 2)), civil dates are day         *)
(* numbers (day 1 = 2024-01-01), instants are hours since day 0 at 00:00   *)
(* in the instant's own zone, and identifiers are sequences of characters. *)
(***************************************************************************)
EXTENDS Integers, Sequences, FiniteSets, TLC

(***************************************************************************)
(* Bounds of the model.                                                    *)
(***************************************************************************)
\* POST /reconcile requests served in one behaviour.
MaxRequests == 2
\* Rows of each kind (transactions, settlements, adjustments) in the store.
MaxRows == 2

(***************************************************************************)
(* Configuration (app/config.py).                                          *)
(***************************************************************************)
AMOUNT_TOLERANCE_PERCENT == 5
SETTLEMENT_WINDOW_HOURS == 72
CHARGEBACK_WINDOW_DAYS == 90
REFUND_WINDOW_DAYS == 30
CURRENCY_FX_TOLERANCE_PERCENT == 10
DEFAULT_MIN_CONFIDENCE == 80
\* The literal the phases compare a confidence with to set the status.
STATUS_THRESHOLD == 80

\* Values of MIN_CONFIDENCE_FOR_AUTO_MATCH the process is started with
\* (Field(ge=0, le=100)): the default and one value on each side of it.
MinConfidenceValues == {75, DEFAULT_MIN_CONFIDENCE, 90}

\* FX_RATES_TO_USD in units of 0.00025 USD (the smallest rate of the table);
\* an unknown code counts as 1.0.
FxRateUnit == 4000
FX_RATES_TO_USD(currency) ==
    CASE currency = "USD" -> 4000
      [] currency = "MXN" -> 232
      [] currency = "COP" -> 1
      [] currency = "BRL" -> 800
      [] OTHER -> FxRateUnit

(***************************************************************************)
(* Identifiers and the rows the store is filled from.                      *)
(***************************************************************************)
\* A NULL foreign key or a NULL / empty reference.
NoId == 0
NoRef == << >>
\* An absent date_from / date_to.
NoDate == 0

txn_0001 == <<"t", "x", "n", "_", "0", "0", "0", "1">>
txn_0002 == <<"t", "x", "n", "_", "0", "0", "0", "2">>
txn_0003 == <<"t", "x", "n", "_", "0", "0", "0", "3">>
txn_0002_stl == txn_0002 \o <<"-", "s", "t", "l">>
order_A == <<"o", "r", "d", "e", "r", "_", "A">>
order_X == <<"o", "r", "d", "e", "r", "_", "X">>
order_Z == <<"o", "r", "d", "e", "r", "_", "Z">>

HoursPerDay == 24
\* The instant of day d at hour h.
At(d, h) == d * HoursPerDay + h

Txn(i, tid, moid, amt, cur, ts, st) ==
    [id |-> i, transaction_id |-> tid, merchant_order_id |-> moid, amount |-> amt,
     currency |-> cur, timestamp |-> ts, status |-> st]

Stl(i, ref, amt, cur, d) ==
    [id |-> i, transaction_reference |-> ref, amount |-> amt, currency |-> cur,
     settlement_date |-> d]

Adj(i, ref, amt, cur, ty, d) ==
    [id |-> i, transaction_reference |-> ref, amount |-> amt, currency |-> cur,
     type |-> ty, date |-> d]

\* Transactions the store may hold; transaction_id is unique among them.
TransactionPool ==
    { Txn(1, txn_0001, order_A, 100000, "MXN", At(15, 10), "captured"),
      Txn(2, txn_0002, order_X, 100000, "MXN", At(15, 10), "captured"),
      Txn(3, txn_0003, order_Z, 100000, "MXN", At(16, 9), "authorized") }

\* Settlements the store may hold.
SettlementPool ==
    { Stl(1, txn_0001, 100000, "MXN", 15),
      Stl(2, txn_0001, 97000, "MXN", 17),
      Stl(3, NoRef, 100000, "MXN", 16),
      Stl(4, order_X, 103000, "MXN", 25),
      Stl(5, txn_0001, 5800, "USD", 16),
      Stl(6, txn_0002_stl, 99000, "MXN", 30) }

\* Adjustments the store may hold.
AdjustmentPool ==
    { Adj(1, txn_0002, 20000, "MXN", "refund", 20),
      Adj(2, txn_0002, 150000, "USD", "refund", 40),
      Adj(3, order_A, 100000, "MXN", "chargeback", 46) }

(***************************************************************************)
(* Utilities (app/utils).                                                  *)
(***************************************************************************)
Abs(x) == IF x < 0 THEN -x ELSE x
Max(a, b) == IF a >= b THEN a ELSE b

\* datetime.date(): the civil day of an instant.
DateOf(ts) == ts \div HoursPerDay

\* days_between on two civil days.
days_between(date1, date2) == Abs(date2 - date1)

\* hours_between on two instants.
hours_between(dt1, dt2) == Abs(dt2 - dt1)

\* datetime.combine(settlement_date, datetime.min.time()), moved into the
\* zone of the transaction's timestamp.
StartOfDay(d) == d * HoursPerDay

\* A quotient of Decimals kept as a fraction num / den with den > 0.
Frac(n, d) == [num |-> n, den |-> d]
\* fraction <= p / 100, that is num * 100 <= p * den, computed without
\* leaving 32 bits (0 <= p <= 100).
AtMostPercent(f, p) == f.num <= p * (f.den \div 100) + (p * (f.den % 100)) \div 100
\* The nearest integer to n / d (n >= 0, d > 0), halves rounded up.
RoundDiv(n, d) == (2 * n + d) \div (2 * d)

\* convert_currency(amount, from, to) as a fraction of cents.
convert_currency(amount, from_currency, to_currency) ==
    IF from_currency = to_currency THEN Frac(amount, 1)
    ELSE IF FX_RATES_TO_USD(to_currency) = 0
         THEN Frac(amount * FX_RATES_TO_USD(from_currency), FxRateUnit)
         ELSE Frac(amount * FX_RATES_TO_USD(from_currency), FX_RATES_TO_USD(to_currency))

\* The greatest common divisor of a >= 0 and b >= 0.
RECURSIVE Gcd(_, _)
Gcd(a, b) == IF b = 0 THEN a ELSE Gcd(b, a % b)
\* A fraction in lowest terms.
Lowest(f) ==
    LET g == Gcd(f.num, f.den) IN IF g = 0 THEN f ELSE Frac(f.num \div g, f.den \div g)
\* The Decimal f * a / b (a >= 0, b > 0), cancelled before multiplying so
\* that the products stay within 32 bits.
Scaled(f, a, b) ==
    LET g1 == Gcd(f.num, b)
        g2 == Gcd(a, f.den)
        n == IF g1 = 0 THEN f.num ELSE f.num \div g1
        bb == IF g1 = 0 THEN b ELSE b \div g1
    IN Lowest(Frac(n * (a \div g2), (f.den \div g2) * bb))
\* Decimal ==, on fractions.
SameDecimal(f, g) == Lowest(f) = Lowest(g)

\* Faulty variant: the amount in USD is rounded to whole cents.
convert_to_usd_Quantized(amount, currency) ==
    LET usd_amount == Scaled(amount, FX_RATES_TO_USD(currency), FxRateUnit)
    IN Frac(RoundDiv(usd_amount.num, usd_amount.den), 1)

\* convert_to_usd on a Decimal amount: amount * rate.
convert_to_usd(amount, currency) == Scaled(amount, FX_RATES_TO_USD(currency), FxRateUnit)

\* convert_currency on a Decimal amount (a fraction of cents), as the
\* three steps of the function: the same-currency return, the conversion
\* to USD, the division by the target rate.  A quotient the Decimal context
\* would round at its 28th digit is kept exact.
convert_currency_decimal(amount, from_currency, to_currency) ==
    IF from_currency = to_currency THEN amount
    ELSE LET usd_amount == convert_to_usd(amount, from_currency)
             to_rate == FX_RATES_TO_USD(to_currency)
         IN IF to_rate = 0 THEN usd_amount
            ELSE Scaled(usd_amount, FxRateUnit, to_rate)

\* s[:n]
Prefix(s, n) == SubSeq(s, 1, IF Len(s) < n THEN Len(s) ELSE n)
\* a in b, on strings
IsSubstring(a, b) ==
    \E i \in 1..(Len(b) - Len(a) + 1) : SubSeq(b, i, i + Len(a) - 1) = a

\* The sequences over the rows of S, each row once: the orders in which a
\* SELECT without ORDER BY may return them.
Orderings(S) ==
    { f \in [1..Cardinality(S) -> S] : \A i, j \in 1..Cardinality(S) : f[i] = f[j] => i = j }

\* Fold a loop body over a list, first element first.
ForEach(Body(_, _), list, start) ==
    LET RECURSIVE go(_, _)
        go(i, acc) == IF i > Len(list) THEN acc ELSE go(i + 1, Body(list[i], acc))
    IN go(1, start)

(***************************************************************************)
(* The matching engine (app/services/matching.py).  The state of an engine *)
(* during a run is a record e: the three exclusion sets of __init__, and   *)
(* the locals `matches` and `amount_mismatches` of run_reconciliation.     *)
(***************************************************************************)
MatchResult(t_id, s_id, a_id, type, confidence, reasons, amount_diff, day_diff, st, ph) ==
    [transaction_id |-> t_id, settlement_id |-> s_id, adjustment_id |-> a_id,
     match_type |-> type, confidence_score |-> confidence, match_reasons |-> reasons,
     amount_difference |-> amount_diff, date_difference_days |-> day_diff,
     status |-> st,
     phase |-> ph]   \* the phase that emitted it (not a column; kept for the properties)

\* MatchingEngine.__init__
NewEngine ==
    [matched_transaction_ids |-> {}, matched_settlement_ids |-> {},
     matched_adjustment_ids |-> {}, matches |-> << >>, amount_mismatches |-> 0]

\* Faulty variant: the check of matched_transaction_ids is missing.
TransactionTaken_Missing(transaction, e) == FALSE
\* if transaction.id in self.matched_transaction_ids: continue
TransactionTaken(transaction, e) == transaction.id \in e.matched_transaction_ids
\* Faulty variant: the check of matched_settlement_ids is missing.
SettlementTaken_Missing(settlement, e) == FALSE
\* if settlement.id in self.matched_settlement_ids: continue
SettlementTaken(settlement, e) == settlement.id \in e.matched_settlement_ids
\* if adjustment.id in self.matched_adjustment_ids: continue
AdjustmentTaken(adjustment, e) == adjustment.id \in e.matched_adjustment_ids
\* a reference that is neither None nor empty
HasReference(x) == x.transaction_reference # NoRef

\* Faulty variant: the transaction id is not added to matched_transaction_ids.
RecordSettlementMatch_ForgetsTransaction(e, match) ==
    [e EXCEPT !.matches = Append(@, match),
              !.matched_settlement_ids = @ \cup {match.settlement_id}]
\* matches.append(match) and the two adds that follow it in phases 1 to 4.
RecordSettlementMatch(e, match) ==
    [e EXCEPT !.matches = Append(@, match),
              !.matched_transaction_ids = @ \cup {match.transaction_id},
              !.matched_settlement_ids = @ \cup {match.settlement_id}]

\* Faulty variant: phase 5 also adds the transaction to
\* matched_transaction_ids.
RecordAdjustmentMatch_MarksTransaction(e, match) ==
    [e EXCEPT !.matches = Append(@, match),
              !.matched_transaction_ids = @ \cup {match.transaction_id},
              !.matched_adjustment_ids = @ \cup {match.adjustment_id}]

\* matches.append(match) and the add that follows it in phase 5.
RecordAdjustmentMatch(e, match) ==
    [e EXCEPT !.matches = Append(@, match),
              !.matched_adjustment_ids = @ \cup {match.adjustment_id}]

\* "matched" if confidence >= 80 else "pending_review"
StatusFor(confidence) ==
    IF confidence >= STATUS_THRESHOLD THEN "matched" ELSE "pending_review"

\* Faulty variant: a zero transaction amount is an exact match of any
\* settlement amount.
AmountDiffPercent_AcceptsAsymmetricZero(transaction_amount, other) ==
    IF transaction_amount = 0
    THEN [skip |-> FALSE, percent |-> Frac(0, 1)]
    ELSE [skip |-> FALSE,
          percent |-> Frac(Abs(other.num - transaction_amount * other.den),
                           other.den * transaction_amount)]

\* The amount tolerance arithmetic of phases 2, 3 and 4: `other` is the
\* settlement amount (converted, in phase 4) as a fraction of cents.
\* skip: the `continue` of the last branch; percent: amount_diff_percent.
AmountDiffPercent(transaction_amount, other) ==
    IF transaction_amount = 0 /\ other.num = 0
    THEN [skip |-> FALSE, percent |-> Frac(0, 1)]
    ELSE IF transaction_amount > 0
         THEN [skip |-> FALSE,
               percent |-> Frac(Abs(other.num - transaction_amount * other.den),
                                other.den * transaction_amount)]
         ELSE [skip |-> TRUE, percent |-> Frac(0, 1)]

\* best_match = None; best_confidence = 0
NoBest ==
    [found |-> FALSE, confidence |-> 0, transaction_id |-> NoId, amount_diff |-> 0,
     day_diff |-> 0, reasons |-> << >>]

\* Faulty variant: a candidate of equal confidence replaces the best so far.
KeepBest_LastWins(best, confidence, transaction, amount_diff, day_diff, reasons) ==
    IF confidence >= best.confidence /\ confidence > 0
    THEN [found |-> TRUE, confidence |-> confidence, transaction_id |-> transaction.id,
          amount_diff |-> amount_diff, day_diff |-> day_diff, reasons |-> reasons]
    ELSE best

\* if confidence > best_confidence: best_confidence = ...; best_match = ...
KeepBest(best, confidence, transaction, amount_diff, day_diff, reasons) ==
    IF confidence > best.confidence
    THEN [found |-> TRUE, confidence |-> confidence, transaction_id |-> transaction.id,
          amount_diff |-> amount_diff, day_diff |-> day_diff, reasons |-> reasons]
    ELSE best

(***************************************************************************)
(* Phase 1: exact transaction id.                                          *)
(***************************************************************************)
Phase1Condition(settlement, transaction) ==
    /\ settlement.transaction_reference = transaction.transaction_id
    /\ settlement.currency = transaction.currency

\* Faulty variant: an amount variance lowers the confidence of an exact id
\* match and sends it to review.
Phase1Match_PenalisesVariance(settlement, transaction) ==
    MatchResult(transaction.id, settlement.id, NoId, "transaction_settlement",
                IF settlement.amount = transaction.amount THEN 100 ELSE 90,
                <<"exact_transaction_id_match", "currency_match">>,
                Abs(settlement.amount - transaction.amount),
                days_between(settlement.settlement_date, DateOf(transaction.timestamp)),
                IF settlement.amount = transaction.amount THEN "matched"
                ELSE "pending_review", 1)

\* The MatchResult phase 1 builds for a pair.
Phase1Match(settlement, transaction) ==
    MatchResult(transaction.id, settlement.id, NoId, "transaction_settlement", 100,
                <<"exact_transaction_id_match", "currency_match">>,
                Abs(settlement.amount - transaction.amount),
                days_between(settlement.settlement_date, DateOf(transaction.timestamp)),
                "matched", 1)

\* The body of the loop over settlements.
Phase1Settlement(transactions, settlement, e) ==
    IF SettlementTaken(settlement, e) \/ ~HasReference(settlement) THEN e
    ELSE LET hits == { i \in 1..Len(transactions) :
                         /\ ~TransactionTaken(transactions[i], e)
                         /\ Phase1Condition(settlement, transactions[i]) }
         IN IF hits = {} THEN e
            ELSE LET first == CHOOSE i \in hits : \A j \in hits : i <= j
                 IN RecordSettlementMatch(e, Phase1Match(settlement, transactions[first]))

phase1_exact_id_match(transactions, settlements, e) ==
    ForEach(LAMBDA s, acc : Phase1Settlement(transactions, s, acc), settlements, e)

(***************************************************************************)
(* Phase 2: amount and date window.                                        *)
(***************************************************************************)
\* Faulty variant: a variance of up to 5% earns the bonus of a variance of
\* up to 1%.
Phase2AmountBonus_Generous(amount_diff, percent) ==
    IF amount_diff = 0 THEN 15
    ELSE IF AtMostPercent(percent, 5) THEN 10
    ELSE 0

\* Amount bonuses of phase 2.
Phase2AmountBonus(amount_diff, percent) ==
    IF amount_diff = 0 THEN 15
    ELSE IF AtMostPercent(percent, 1) THEN 10
    ELSE IF AtMostPercent(percent, 5) THEN 5
    ELSE 0

\* Faulty variant: the same-day bonus is 10 instead of 5.
Phase2DateBonus_TooHigh(day_diff) ==
    IF day_diff = 0 THEN 10
    ELSE IF day_diff <= 1 THEN 3
    ELSE IF day_diff <= 2 THEN 1
    ELSE 0
\* Date bonuses of phase 2.
Phase2DateBonus(day_diff) ==
    IF day_diff = 0 THEN 5
    ELSE IF day_diff <= 1 THEN 3
    ELSE IF day_diff <= 2 THEN 1
    ELSE 0

\* Faulty variant: the date window is not checked.
OutsideSettlementWindow_Never(settlement, transaction) == FALSE

\* hours_diff > window_hours: continue
OutsideSettlementWindow(settlement, transaction) ==
    hours_between(StartOfDay(settlement.settlement_date), transaction.timestamp)
        > SETTLEMENT_WINDOW_HOURS

\* The body of the inner loop over transactions.
Phase2Candidate(settlement, transaction, e, best) ==
    IF TransactionTaken(transaction, e) THEN best
    ELSE IF settlement.currency # transaction.currency THEN best
    ELSE LET amount_diff == Abs(settlement.amount - transaction.amount)
             check == AmountDiffPercent(transaction.amount, Frac(settlement.amount, 1))
             day_diff == days_between(settlement.settlement_date,
                                      DateOf(transaction.timestamp))
         IN IF check.skip THEN best
            ELSE IF ~AtMostPercent(check.percent, AMOUNT_TOLERANCE_PERCENT) THEN best
            ELSE IF OutsideSettlementWindow(settlement, transaction) THEN best
            ELSE KeepBest(best,
                          80 + Phase2AmountBonus(amount_diff, check.percent)
                             + Phase2DateBonus(day_diff),
                          transaction, amount_diff, day_diff, << >>)

\* What phase 2 emits for the best candidate of a settlement.
Phase2Match(settlement, best) ==
    MatchResult(best.transaction_id, settlement.id, NoId, "transaction_settlement",
                best.confidence,
                IF best.amount_diff > 0
                THEN <<"amount_within_tolerance", "date_within_window",
                       "amount_variance_detected">>
                ELSE <<"amount_within_tolerance", "date_within_window">>,
                best.amount_diff, best.day_diff, StatusFor(best.confidence), 2)

\* The body of the loop over settlements.
Phase2Settlement(transactions, settlement, e, min_confidence) ==
    IF SettlementTaken(settlement, e) THEN e
    ELSE LET best == ForEach(LAMBDA t, b : Phase2Candidate(settlement, t, e, b),
                             transactions, NoBest)
         IN IF best.found /\ best.confidence >= min_confidence
            THEN LET e2 == RecordSettlementMatch(e, Phase2Match(settlement, best))
                 IN IF best.amount_diff > 0
                    THEN [e2 EXCEPT !.amount_mismatches = @ + 1]
                    ELSE e2
            ELSE e

phase2_amount_date_match(transactions, settlements, e, min_confidence) ==
    ForEach(LAMBDA s, acc : Phase2Settlement(transactions, s, acc, min_confidence),
            settlements, e)

(***************************************************************************)
(* Phase 3: fuzzy reference (partial id, merchant order id).               *)
(***************************************************************************)
\* Check partial ID match (first 8 chars).
PartialIdMatch(settlement, transaction) ==
    /\ Len(settlement.transaction_reference) >= 8
    /\ Len(transaction.transaction_id) >= 8
    /\ \/ IsSubstring(Prefix(settlement.transaction_reference, 8),
                      transaction.transaction_id)
       \/ IsSubstring(Prefix(transaction.transaction_id, 8),
                      settlement.transaction_reference)

\* confidence and reasons before the amount is looked at.
Phase3Reference(settlement, transaction) ==
    LET partial == PartialIdMatch(settlement, transaction)
        order == settlement.transaction_reference = transaction.merchant_order_id
    IN [confidence |-> IF order THEN Max(IF partial THEN 70 ELSE 0, 75)
                       ELSE IF partial THEN 70 ELSE 0,
        reasons |-> IF partial /\ order THEN <<"partial_id_match", "merchant_order_id_match">>
                    ELSE IF order THEN <<"merchant_order_id_match">>
                    ELSE IF partial THEN <<"partial_id_match">>
                    ELSE << >>]

\* Faulty variant: any amount within the tolerance earns at least 10.
Phase3AmountBonus_Generous(amount_diff, percent) ==
    IF amount_diff = 0 THEN 15 ELSE 10

\* Adjust confidence based on amount match.
Phase3AmountBonus(amount_diff, percent) ==
    IF amount_diff = 0 THEN 15
    ELSE IF AtMostPercent(percent, 2) THEN 10
    ELSE 0

\* The body of the inner loop over transactions.
Phase3Candidate(settlement, transaction, e, best) ==
    IF TransactionTaken(transaction, e) THEN best
    ELSE IF settlement.currency # transaction.currency THEN best
    ELSE LET ref == Phase3Reference(settlement, transaction)
             amount_diff == Abs(settlement.amount - transaction.amount)
             check == AmountDiffPercent(transaction.amount, Frac(settlement.amount, 1))
         IN IF ref.confidence = 0 THEN best
            ELSE IF check.skip THEN best
            ELSE IF ~AtMostPercent(check.percent, AMOUNT_TOLERANCE_PERCENT) THEN best
            ELSE KeepBest(best,
                          ref.confidence + Phase3AmountBonus(amount_diff, check.percent),
                          transaction, amount_diff,
                          days_between(settlement.settlement_date,
                                       DateOf(transaction.timestamp)),
                          Append(ref.reasons, "amount_within_tolerance"))

Phase3Match(settlement, best) ==
    MatchResult(best.transaction_id, settlement.id, NoId, "transaction_settlement",
                best.confidence, best.reasons, best.amount_diff, best.day_diff,
                StatusFor(best.confidence), 3)

\* The body of the loop over settlements.
Phase3Settlement(transactions, settlement, e) ==
    IF SettlementTaken(settlement, e) \/ ~HasReference(settlement) THEN e
    ELSE LET best == ForEach(LAMBDA t, b : Phase3Candidate(settlement, t, e, b),
                             transactions, NoBest)
         IN IF best.found THEN RecordSettlementMatch(e, Phase3Match(settlement, best))
            ELSE e

phase3_fuzzy_match(transactions, settlements, e) ==
    ForEach(LAMBDA s, acc : Phase3Settlement(transactions, s, acc), settlements, e)

(***************************************************************************)
(* Phase 4: cross-currency.                                                *)
(***************************************************************************)
\* Adjust based on amount match.
Phase4AmountBonus(percent) ==
    IF AtMostPercent(percent, 5) THEN 15
    ELSE IF AtMostPercent(percent, 8) THEN 10
    ELSE 0

\* Faulty variant: an exact reference earns 10 instead of 20.
Phase4IdBonus_Halved(settlement, transaction) ==
    IF HasReference(settlement)
       /\ settlement.transaction_reference = transaction.transaction_id
    THEN 10 ELSE 0

\* Check for ID match.
Phase4IdBonus(settlement, transaction) ==
    IF HasReference(settlement)
       /\ settlement.transaction_reference = transaction.transaction_id
    THEN 20 ELSE 0

\* The body of the inner loop over transactions.  amount_difference is
\* kept as the column stores it, in whole cents.
Phase4Candidate(settlement, transaction, e, best) ==
    IF TransactionTaken(transaction, e) THEN best
    ELSE IF settlement.currency = transaction.currency THEN best
    ELSE LET converted_amount == convert_currency(settlement.amount, settlement.currency,
                                                  transaction.currency)
             amount_diff == RoundDiv(Abs(converted_amount.num
                                         - transaction.amount * converted_amount.den),
                                     converted_amount.den)
             check == AmountDiffPercent(transaction.amount, converted_amount)
         IN IF check.skip THEN best
            ELSE IF ~AtMostPercent(check.percent, CURRENCY_FX_TOLERANCE_PERCENT) THEN best
            ELSE IF OutsideSettlementWindow(settlement, transaction) THEN best
            ELSE KeepBest(best,
                          60 + Phase4AmountBonus(check.percent)
                             + Phase4IdBonus(settlement, transaction),
                          transaction, amount_diff,
                          days_between(settlement.settlement_date,
                                       DateOf(transaction.timestamp)),
                          << >>)

Phase4Match(settlement, best) ==
    MatchResult(best.transaction_id, settlement.id, NoId, "transaction_settlement",
                best.confidence,
                <<"cross_currency_match", "amount_within_fx_tolerance", "needs_review">>,
                best.amount_diff, best.day_diff, "pending_review", 4)

\* The body of the loop over settlements.
Phase4Settlement(transactions, settlement, e) ==
    IF SettlementTaken(settlement, e) THEN e
    ELSE LET best == ForEach(LAMBDA t, b : Phase4Candidate(settlement, t, e, b),
                             transactions, NoBest)
         IN IF best.found /\ best.confidence >= 60
            THEN RecordSettlementMatch(e, Phase4Match(settlement, best))
            ELSE e

phase4_cross_currency_match(transactions, settlements, e) ==
    ForEach(LAMBDA s, acc : Phase4Settlement(transactions, s, acc), settlements, e)

(***************************************************************************)
(* Phase 5: adjustments.                                                   *)
(***************************************************************************)
\* Faulty variant: refunds get the window of chargebacks.
AdjustmentWindow_ChargebackForAll(adjustment) == CHARGEBACK_WINDOW_DAYS

\* Determine window based on adjustment type.
AdjustmentWindow(adjustment) ==
    IF adjustment.type = "chargeback" THEN CHARGEBACK_WINDOW_DAYS
    ELSE REFUND_WINDOW_DAYS

\* Check exact transaction reference match: confidence and reasons.
Phase5Reference(adjustment, transaction) ==
    IF ~HasReference(adjustment) THEN [confidence |-> 0, reasons |-> << >>]
    ELSE IF adjustment.transaction_reference = transaction.transaction_id
    THEN [confidence |-> 100, reasons |-> <<"exact_transaction_id_match">>]
    ELSE IF adjustment.transaction_reference = transaction.merchant_order_id
    THEN [confidence |-> 90, reasons |-> <<"merchant_order_id_match">>]
    ELSE [confidence |-> 0, reasons |-> << >>]

\* The two penalties: confidence and reasons after them.
Phase5Penalties(adjustment, transaction, ref) ==
    LET c1 == IF adjustment.currency # transaction.currency
              THEN [confidence |-> ref.confidence - 20,
                    reasons |-> Append(ref.reasons, "currency_mismatch")]
              ELSE ref
    IN IF adjustment.amount > transaction.amount
       THEN [confidence |-> c1.confidence - 10,
             reasons |-> Append(c1.reasons, "adjustment_exceeds_transaction")]
       ELSE c1

\* The body of the inner loop over transactions.
Phase5Candidate(adjustment, transaction, best) ==
    LET ref == Phase5Reference(adjustment, transaction)
        scored == Phase5Penalties(adjustment, transaction, ref)
        day_diff == days_between(adjustment.date, DateOf(transaction.timestamp))
    IN IF ref.confidence = 0 THEN best
       ELSE IF day_diff > AdjustmentWindow(adjustment) THEN best
       ELSE KeepBest(best, scored.confidence, transaction,
                     Abs(adjustment.amount - transaction.amount), day_diff,
                     Append(scored.reasons, "date_within_window"))

Phase5Match(adjustment, best) ==
    MatchResult(best.transaction_id, NoId, adjustment.id, "transaction_adjustment",
                best.confidence, best.reasons, best.amount_diff, best.day_diff,
                StatusFor(best.confidence), 5)

\* The body of the loop over adjustments.
Phase5Adjustment(transactions, adjustment, e) ==
    IF AdjustmentTaken(adjustment, e) THEN e
    ELSE LET best == ForEach(LAMBDA t, b : Phase5Candidate(adjustment, t, b),
                             transactions, NoBest)
         IN IF best.found THEN RecordAdjustmentMatch(e, Phase5Match(adjustment, best))
            ELSE e

phase5_adjustment_match(transactions, adjustments, e) ==
    ForEach(LAMBDA a, acc : Phase5Adjustment(transactions, a, acc), adjustments, e)

(***************************************************************************)
(* The store and the requests.                                             *)
(***************************************************************************)
VARIABLES
    transactions,    \* table transactions: a set of rows
    settlements,     \* table settlements
    adjustments,     \* table adjustments
    settings,        \* app.config.settings, loaded once per process
    match_results,   \* table match_results: rows [id, match]
    run,             \* run[r]: the POST /reconcile request r and its engine
    reply            \* what the last step returned to its caller: the response of
                     \* a GET, the result of a utility, the rows of a run's SELECTs

vars == <<transactions, settlements, adjustments, settings, match_results, run, reply>>

\* The last step served no GET request.
NoReply == [endpoint |-> "none"]

Requests == 1..MaxRequests

\* The (date_from, date_to) bodies a request is sent with.
DateRanges == { [date_from |-> NoDate, date_to |-> NoDate],
                [date_from |-> 15, date_to |-> 16] }

\* The awaits of run_reconciliation on the store: the DELETE and its commit,
\* the three SELECTs, the commit of the new rows.
StoreCalls == {"clear", "load", "persist"}

NoResponse ==
    [status |-> 0, matched |-> 0, unmatched_transactions |-> 0,
     unmatched_settlements |-> 0, unmatched_adjustments |-> 0, amount_mismatches |-> 0]

\* A request that has not arrived.
IdleRun ==
    [pc |-> "idle", date_from |-> NoDate, date_to |-> NoDate, engine |-> NewEngine,
     loaded |-> [transactions |-> 0, settlements |-> 0, adjustments |-> 0],
     response |-> NoResponse,
     table_before |-> {},   \* match_results when the request arrived (history)
     commit_order |-> 0]    \* its place among the committed runs (history)

\* _load_transactions: the rows its SELECT returns.
SelectTransactions(date_from, date_to) ==
    { t \in transactions :
        /\ t.status = "captured"
        /\ date_from # NoDate => t.timestamp >= StartOfDay(date_from)
        /\ date_to # NoDate => DateOf(t.timestamp) <= date_to }

\* _load_settlements: the rows its SELECT returns.
SelectSettlements(date_from, date_to) ==
    { s \in settlements :
        /\ date_from # NoDate => s.settlement_date >= date_from
        /\ date_to # NoDate => s.settlement_date <= date_to }

\* _load_adjustments: the rows its SELECT returns.
SelectAdjustments(date_from, date_to) ==
    { a \in adjustments :
        /\ date_from # NoDate => a.date >= date_from
        /\ date_to # NoDate => a.date <= date_to }

\* Faulty variant: the fuzzy phase runs before the amount and date phase.
RunPipeline_FuzzyFirst(txns, stls, adjs, e, min_confidence) ==
    LET e1 == phase1_exact_id_match(txns, stls, e)
        e2 == phase3_fuzzy_match(txns, stls, e1)
        e3 == phase2_amount_date_match(txns, stls, e2, min_confidence)
        e4 == phase4_cross_currency_match(txns, stls, e3)
    IN phase5_adjustment_match(txns, adjs, e4)

\* The five phases in order, on the loaded lists.
RunPipeline(txns, stls, adjs, e, min_confidence) ==
    LET e1 == phase1_exact_id_match(txns, stls, e)
        e2 == phase2_amount_date_match(txns, stls, e1, min_confidence)
        e3 == phase3_fuzzy_match(txns, stls, e2)
        e4 == phase4_cross_currency_match(txns, stls, e3)
    IN phase5_adjustment_match(txns, adjs, e4)

\* for match in matches: self.db.add(match): the rows the commit inserts,
\* each under a fresh primary key.
NewRows(r, matches) ==
    { [id |-> <<r, k>>, match |-> matches[k]] : k \in 1..Len(matches) }

\* Calculate stats: the dict run_reconciliation returns.
Stats(rn) ==
    [status |-> 200,
     matched |-> Len(rn.engine.matches),
     unmatched_transactions |->
         rn.loaded.transactions - Cardinality(rn.engine.matched_transaction_ids),
     unmatched_settlements |->
         rn.loaded.settlements - Cardinality(rn.engine.matched_settlement_ids),
     unmatched_adjustments |->
         rn.loaded.adjustments - Cardinality(rn.engine.matched_adjustment_ids),
     amount_mismatches |-> rn.engine.amount_mismatches]

Init ==
    /\ transactions \in { S \in SUBSET TransactionPool : Cardinality(S) <= MaxRows }
    /\ settlements \in { S \in SUBSET SettlementPool : Cardinality(S) <= MaxRows }
    /\ adjustments \in { S \in SUBSET AdjustmentPool : Cardinality(S) <= MaxRows }
    /\ settings \in [MIN_CONFIDENCE_FOR_AUTO_MATCH : MinConfidenceValues]
    /\ match_results = {}
    /\ run = [r \in Requests |-> IdleRun]
    /\ reply = NoReply

\* Requests are numbered in the order they arrive.
ArrivesNext(r) ==
    /\ run[r].pc = "idle"
    /\ \A q \in Requests : q < r => run[q].pc # "idle"

\* No request is inside run_reconciliation.
NoRunInProgress == \A q \in Requests : run[q].pc \in {"idle", "done", "failed"}

\* POST /reconcile: engine = MatchingEngine(db); engine.run_reconciliation(...)
StartRun(r) ==
    /\ ArrivesNext(r)
    /\ \E range \in DateRanges :
         run' = [run EXCEPT ![r] = [IdleRun EXCEPT !.pc = "clear",
                                                   !.date_from = range.date_from,
                                                   !.date_to = range.date_to,
                                                   !.table_before = match_results]]
    /\ UNCHANGED <<transactions, settlements, adjustments, settings, match_results>>

\* Faulty variant: only the matches of settlements inside the date range of
\* the run are deleted.
ClearPreviousMatches_OnlyInRange(r) ==
    /\ run[r].pc = "clear"
    /\ match_results' =
           { x \in match_results :
               \A s \in SelectSettlements(run[r].date_from, run[r].date_to) :
                   x.match.settlement_id # s.id }
    /\ run' = [run EXCEPT ![r].pc = "load"]
    /\ UNCHANGED <<transactions, settlements, adjustments, settings>>

\* _clear_previous_matches: DELETE FROM match_results; COMMIT
ClearPreviousMatches(r) ==
    /\ run[r].pc = "clear"
    /\ match_results' = {}
    /\ run' = [run EXCEPT ![r].pc = "load"]
    /\ UNCHANGED <<transactions, settlements, adjustments, settings>>

\* Load data, then phases 1 to 5.  The three SELECTs carry no ORDER BY, so
\* each returns its rows in an order of the store's choosing; they read
\* tables that no step writes, so the awaits between them are not separate
\* steps.  The phases run without an await up to the commit.
LoadAndMatch(r) ==
    /\ run[r].pc = "load"
    /\ \E txns \in Orderings(SelectTransactions(run[r].date_from, run[r].date_to)),
          stls \in Orderings(SelectSettlements(run[r].date_from, run[r].date_to)),
          adjs \in Orderings(SelectAdjustments(run[r].date_from, run[r].date_to)) :
         run' = [run EXCEPT
                   ![r].loaded = [transactions |-> Len(txns), settlements |-> Len(stls),
                                  adjustments |-> Len(adjs)],
                   ![r].engine = RunPipeline(txns, stls, adjs, run[r].engine,
                                             settings.MIN_CONFIDENCE_FOR_AUTO_MATCH),
                   ![r].pc = "persist"]
    /\ UNCHANGED <<transactions, settlements, adjustments, settings, match_results>>

\* Save all matches: db.add each, COMMIT; then the stats are returned.
PersistMatches(r) ==
    /\ run[r].pc = "persist"
    /\ match_results' = match_results \cup NewRows(r, run[r].engine.matches)
    /\ run' = [run EXCEPT ![r].pc = "done", ![r].response = Stats(run[r]),
                          ![r].commit_order =
                              1 + Cardinality({q \in Requests : run[q].pc = "done"})]
    /\ UNCHANGED <<transactions, settlements, adjustments, settings>>

\* A store call raises: the statement in flight has no effect, the exception
\* leaves run_reconciliation (its engine and locals are dropped) and the
\* request is answered with HTTP 500.
StoreFails(r) ==
    /\ run[r].pc \in StoreCalls
    /\ run' = [run EXCEPT ![r] = [IdleRun EXCEPT
                                    !.pc = "failed",
                                    !.response = [NoResponse EXCEPT !.status = 500],
                                    !.table_before = run[r].table_before]]
    /\ UNCHANGED <<transactions, settlements, adjustments, settings, match_results>>

\* A step of request r once it has arrived.
RunStep(r) ==
    \/ ClearPreviousMatches(r)
    \/ LoadAndMatch(r)
    \/ PersistMatches(r)
    \/ StoreFails(r)

\* Requests served one after another.
Next ==
    /\ \E r \in Requests : (NoRunInProgress /\ StartRun(r)) \/ RunStep(r)
    /\ reply' = NoReply

Spec == Init /\ [][Next]_vars

\* Requests served concurrently: their steps interleave at the store calls.
NextConcurrent ==
    /\ \E r \in Requests : StartRun(r) \/ RunStep(r)
    /\ reply' = NoReply

\* The concurrent requests are explored under the default settings.
InitConcurrent ==
    /\ Init
    /\ settings.MIN_CONFIDENCE_FOR_AUTO_MATCH = DEFAULT_MIN_CONFIDENCE

SpecConcurrent == InitConcurrent /\ [][NextConcurrent]_vars

\* A caller that kept the MatchingEngine of the completed request r - 1 calls
\* run_reconciliation on it again: __init__ does not run, so the three sets
\* keep what the earlier call added; `matches` and `amount_mismatches` are
\* locals of the call and start empty.
RunAgainOnSameEngine(r) ==
    /\ ArrivesNext(r)
    /\ r > 1
    /\ run[r - 1].pc = "done"
    /\ \E range \in DateRanges :
         run' = [run EXCEPT ![r] =
                   [IdleRun EXCEPT !.pc = "clear",
                                   !.date_from = range.date_from,
                                   !.date_to = range.date_to,
                                   !.table_before = match_results,
                                   !.engine = [run[r - 1].engine EXCEPT
                                                 !.matches = << >>,
                                                 !.amount_mismatches = 0]]]
    /\ UNCHANGED <<transactions, settlements, adjustments, settings, match_results>>

\* Calls served one after another, each on a new engine or on the engine of
\* the call before it.
NextReuse ==
    /\ \E r \in Requests :
         \/ NoRunInProgress /\ StartRun(r)
         \/ NoRunInProgress /\ RunAgainOnSameEngine(r)
         \/ RunStep(r)
    /\ reply' = NoReply

\* Engine reuse is explored under the default settings.
SpecReuse == InitConcurrent /\ [][NextReuse]_vars

(***************************************************************************)
(* The read endpoints (app/api/routes/matches.py, app/services/            *)
(* reporting.py).                                                          *)
(***************************************************************************)
\* scalar_one_or_none() on the rows a SELECT returns: the row, None, or the
\* MultipleResultsFound it raises when there are several.
scalar_one_or_none(rows) ==
    IF rows = {} THEN [raised |-> FALSE, found |-> FALSE, rows |-> {}]
    ELSE IF Cardinality(rows) = 1 THEN [raised |-> FALSE, found |-> TRUE, rows |-> rows]
    ELSE [raised |-> TRUE, found |-> FALSE, rows |-> {}]

\* The response of GET /matches/{transaction_id}: 404 when the transaction
\* or a match of it is not found, 500 when scalar_one_or_none raises (the
\* handler catches nothing), else 200 with the MatchResult.
get_match_by_transaction(transaction_id) ==
    LET base == [endpoint |-> "GET /matches/{transaction_id}",
                 transaction_id |-> transaction_id]
        transaction == scalar_one_or_none(
                           { t \in transactions : t.transaction_id = transaction_id })
    IN IF transaction.raised THEN base @@ [status |-> 500, matches |-> {}]
       ELSE IF ~transaction.found THEN base @@ [status |-> 404, matches |-> {}]
       ELSE LET match == scalar_one_or_none(
                             { x \in match_results :
                                 \E t \in transaction.rows : x.match.transaction_id = t.id })
            IN IF match.raised THEN base @@ [status |-> 500, matches |-> {}]
               ELSE IF ~match.found THEN base @@ [status |-> 404, matches |-> {}]
               ELSE base @@ [status |-> 200, matches |-> match.rows]

\* A transaction id no stored transaction has.
txn_9999 == <<"t", "x", "n", "_", "9", "9", "9", "9">>

\* The transaction ids a client asks for: those of the stored transactions
\* and one that is not stored.
AskedTransactionIds == { t.transaction_id : t \in transactions } \cup {txn_9999}

\* GET /matches/{transaction_id}
GetMatchByTransaction ==
    /\ \E transaction_id \in AskedTransactionIds :
         reply' = get_match_by_transaction(transaction_id)
    /\ UNCHANGED <<transactions, settlements, adjustments, settings, match_results, run>>

\* ReportingService._calculate_priority; the amount is in cents and the
\* rate in units of 1 / FxRateUnit, so USD 1000 is 1000 * 100 * FxRateUnit.
calculate_priority(amount, currency, age_days, is_adjustment) ==
    LET usd_amount == amount * FX_RATES_TO_USD(currency)
    IN IF is_adjustment THEN "high"
       ELSE IF usd_amount > 1000 * 100 * FxRateUnit \/ age_days > 7 THEN "high"
       ELSE IF usd_amount > 100 * 100 * FxRateUnit \/ age_days > 3 THEN "medium"
       ELSE "low"

\* The value of `priority` when the query parameter is absent.
NoPriority == ""
\* if priority and record_priority != priority: continue
PassesPriority(priority, record_priority) ==
    priority = NoPriority \/ record_priority = priority

\* ReportingService._get_unmatched_transactions
get_unmatched_transactions ==
    LET matched_ids == { x.match.transaction_id :
                           x \in { y \in match_results : /\ y.match.transaction_id # NoId
                                                         /\ y.match.settlement_id # NoId } }
    IN { t \in transactions : t.status = "captured" /\ t.id \notin matched_ids }

\* ReportingService._get_unmatched_settlements
get_unmatched_settlements ==
    LET matched_ids == { x.match.settlement_id :
                           x \in { y \in match_results : y.match.settlement_id # NoId } }
    IN { s \in settlements : s.id \notin matched_ids }

\* ReportingService._get_unmatched_adjustments
get_unmatched_adjustments ==
    LET matched_ids == { x.match.adjustment_id :
                           x \in { y \in match_results : y.match.adjustment_id # NoId } }
    IN { a \in adjustments : a.id \notin matched_ids }

\* ReportingService._get_amount_mismatches
get_amount_mismatches ==
    { x \in match_results : x.match.amount_difference > 0 /\ x.match.settlement_id # NoId }

\* ReportingService.get_discrepancies(priority = priority) on the day
\* `today`, the other parameters at their defaults (every type, no currency,
\* no minimum amount, limit 100, offset 0).  Of each entry the fields the
\* priority rule reads and writes are kept; the entries are collected as a
\* set, their order in the response being that of the SELECTs.
get_discrepancies(priority, today) ==
    LET of_transactions ==
            { [type |-> "unmatched_transaction",
               record |-> [id |-> txn.id, amount |-> txn.amount, currency |-> txn.currency],
               age_days |-> days_between(DateOf(txn.timestamp), today),
               priority |-> calculate_priority(txn.amount, txn.currency,
                                days_between(DateOf(txn.timestamp), today), FALSE)] :
              txn \in get_unmatched_transactions }
        of_settlements ==
            { [type |-> "unmatched_settlement",
               record |-> [id |-> stl.id, amount |-> stl.amount, currency |-> stl.currency],
               age_days |-> days_between(stl.settlement_date, today),
               priority |-> calculate_priority(stl.amount, stl.currency,
                                days_between(stl.settlement_date, today), FALSE)] :
              stl \in get_unmatched_settlements }
        of_adjustments ==
            { [type |-> "unmatched_adjustment",
               record |-> [id |-> adj.id, amount |-> adj.amount, currency |-> adj.currency],
               age_days |-> days_between(adj.date, today),
               priority |-> calculate_priority(adj.amount, adj.currency,
                                days_between(adj.date, today), TRUE)] :
              adj \in get_unmatched_adjustments }
        of_mismatches ==
            { LET transaction == CHOOSE t \in transactions : t.id = x.match.transaction_id
                  settlement == CHOOSE s \in settlements : s.id = x.match.settlement_id
              IN [type |-> "amount_mismatch",
                  record |-> [match_id |-> x.id,
                              transaction_amount |-> transaction.amount,
                              settlement_amount |-> settlement.amount,
                              settlement_currency |-> settlement.currency,
                              difference |-> x.match.amount_difference,
                              currency |-> transaction.currency],
                  age_days |-> x.match.date_difference_days,
                  priority |-> "medium"] :
              x \in get_amount_mismatches }
        discrepancies ==
            { d \in of_transactions \cup of_settlements \cup of_adjustments :
                PassesPriority(priority, d.priority) } \cup of_mismatches
    IN [endpoint |-> "GET /discrepancies", status |-> 200, priority |-> priority,
        today |-> today, discrepancies |-> discrepancies,
        total |-> Cardinality(discrepancies)]

\* The values of the `priority` query parameter.
PriorityFilters == {NoPriority, "high", "medium", "low"}
\* The days on which the report is asked for.
QueryDays == {18}

\* GET /discrepancies
GetDiscrepancies ==
    /\ \E priority \in PriorityFilters, today \in QueryDays :
         reply' = get_discrepancies(priority, today)
    /\ UNCHANGED <<transactions, settlements, adjustments, settings, match_results, run>>

\* Reconciliation requests served one after another, and reads answered at
\* any moment between their steps.
NextQueries ==
    \/ Next
    \/ GetMatchByTransaction
    \/ GetDiscrepancies

\* The reads are explored under the default settings.
SpecQueries == InitConcurrent /\ [][NextQueries]_vars

(***************************************************************************)
(* Stores of single cases: the worked scenarios of the matching rules, an  *)
(* adjustment on a transaction that was never captured, and zero amounts.  *)
(***************************************************************************)
txn_0004 == <<"t", "x", "n", "_", "0", "0", "0", "4">>
txn_0006 == <<"t", "x", "n", "_", "0", "0", "0", "6">>
txn_0007 == <<"t", "x", "n", "_", "0", "0", "0", "7">>
order_D == <<"o", "r", "d", "e", "r", "_", "D">>
order_F == <<"o", "r", "d", "e", "r", "_", "F">>
order_G == <<"o", "r", "d", "e", "r", "_", "G">>

\* 1000.00 captured on 2024-01-15 at 10:00; 970.00 settled on 2024-01-17
\* without a reference.
S2_Transaction == Txn(2, txn_0002, order_X, 100000, "MXN", At(15, 10), "captured")
S2_Settlement == Stl(7, NoRef, 97000, "MXN", 17)

\* 500.00 captured on 2024-01-10 at 09:00 under order_X; 500.00 settled on
\* 2024-01-11 with the order id as reference.
S3_Transaction == Txn(4, txn_0003, order_X, 50000, "MXN", At(10, 9), "captured")
S3_Settlement == Stl(8, order_X, 50000, "MXN", 11)

\* 17500.00 MXN captured on 2024-01-15 at 10:00; 1000.00 USD settled on
\* 2024-01-16 with the transaction id as reference.
S4_Transaction == Txn(5, txn_0004, order_D, 1750000, "MXN", At(15, 10), "captured")
S4_Settlement == Stl(9, txn_0004, 100000, "USD", 16)

\* Transactions that were authorized or failed and never captured, and
\* adjustments that name them.
AuthorizedTransaction == Txn(3, txn_0003, order_Z, 100000, "MXN", At(16, 9), "authorized")
FailedTransaction == Txn(6, txn_0006, order_F, 100000, "MXN", At(15, 10), "failed")
RefundOfAuthorized == Adj(4, txn_0003, 20000, "MXN", "refund", 20)
ChargebackOfFailed == Adj(5, order_F, 100000, "MXN", "chargeback", 46)

\* A captured transaction of amount zero and the settlements it meets in
\* phase 2 (same currency, inside the window), phase 3 (reference equal to
\* its order id, outside the window) and phase 4 (another currency).
ZeroTransaction == Txn(7, txn_0007, order_G, 0, "MXN", At(15, 10), "captured")
ZeroSettlements ==
    { Stl(10, NoRef, 0, "MXN", 15), Stl(11, NoRef, 100, "MXN", 15),
      Stl(12, order_G, 0, "MXN", 25), Stl(13, order_G, 100, "MXN", 25),
      Stl(14, NoRef, 0, "USD", 15), Stl(15, NoRef, 100, "USD", 15) }

Store(T, S, A) == [transactions |-> T, settlements |-> S, adjustments |-> A]

ScenarioStores ==
    { Store({S2_Transaction}, {S2_Settlement}, {}),
      Store({S3_Transaction}, {S3_Settlement}, {}),
      Store({S4_Transaction}, {S4_Settlement}, {}),
      Store({AuthorizedTransaction, FailedTransaction}, {},
            {RefundOfAuthorized, ChargebackOfFailed}),
      Store({S2_Transaction, AuthorizedTransaction}, {S2_Settlement},
            {RefundOfAuthorized}) }
    \cup { Store({ZeroTransaction}, {s}, {}) : s \in ZeroSettlements }

InitScenarios ==
    /\ \E store \in ScenarioStores :
         /\ transactions = store.transactions
         /\ settlements = store.settlements
         /\ adjustments = store.adjustments
    /\ settings \in [MIN_CONFIDENCE_FOR_AUTO_MATCH : MinConfidenceValues]
    /\ match_results = {}
    /\ run = [r \in Requests |-> IdleRun]
    /\ reply = NoReply

SpecScenarios == InitScenarios /\ [][Next]_vars

(***************************************************************************)
(* Suggested matches (app/services/reporting.py).                          *)
(***************************************************************************)
\* ReportingService._score_match: confidence and reasons.
score_match(transaction, settlement) ==
    LET currency == IF settlement.currency = transaction.currency
                    THEN [confidence |-> 20, reasons |-> <<"currency_match">>]
                    ELSE [confidence |-> 0, reasons |-> << >>]
        diff == Abs(settlement.amount - transaction.amount)
        amount == IF transaction.amount > 0 /\ diff = 0
                  THEN [confidence |-> 40, reasons |-> <<"exact_amount">>]
                  ELSE IF transaction.amount > 0
                          /\ AtMostPercent(Frac(diff, transaction.amount),
                                           AMOUNT_TOLERANCE_PERCENT)
                  THEN [confidence |-> 25, reasons |-> <<"amount_within_tolerance">>]
                  ELSE [confidence |-> 0, reasons |-> << >>]
        day_diff == days_between(settlement.settlement_date, DateOf(transaction.timestamp))
        date == IF day_diff <= 3 THEN [confidence |-> 20, reasons |-> <<"date_within_72h">>]
                ELSE IF day_diff <= 7
                THEN [confidence |-> 10, reasons |-> <<"date_within_7d">>]
                ELSE [confidence |-> 0, reasons |-> << >>]
        reference == IF HasReference(settlement)
                        /\ settlement.transaction_reference = transaction.transaction_id
                     THEN [confidence |-> 20, reasons |-> <<"id_match">>]
                     ELSE [confidence |-> 0, reasons |-> << >>]
        confidence == currency.confidence + amount.confidence + date.confidence
                      + reference.confidence
    IN [confidence |-> IF confidence < 100 THEN confidence ELSE 100,
        reasons |-> currency.reasons \o amount.reasons \o date.reasons \o reference.reasons]

\* suggestions.sort(key=lambda x: x["confidence"], reverse=True): a stable
\* sort, entries of equal confidence keep the order they were appended in.
\* The entries whose confidence is one of `levels`, the highest level first.
RECURSIVE SortedBy(_, _)
SortedBy(suggestions, levels) ==
    IF levels = {} THEN << >>
    ELSE LET c == CHOOSE l \in levels : \A k \in levels : k <= l
         IN SelectSeq(suggestions, LAMBDA x : x.confidence = c)
                \o SortedBy(suggestions, levels \ {c})

\* suggestions[:limit] of the sorted list, limit = 3.
TopSuggestions(suggestions) ==
    LET sorted == SortedBy(suggestions,
                           { suggestions[i].confidence : i \in 1..Len(suggestions) })
    IN SubSeq(sorted, 1, IF Len(sorted) < 3 THEN Len(sorted) ELSE 3)

\* The suggestion entry of a counterpart row.
Suggestion(record_type, row, score) ==
    [record_type |-> record_type,
     record |-> [id |-> row.id, amount |-> row.amount, currency |-> row.currency],
     confidence |-> score.confidence, reasons |-> score.reasons]

\* if confidence > 30: suggestions.append(...), over scored entries in the
\* order of the SELECT.
AboveThreshold(entries) == SelectSeq(entries, LAMBDA x : x.confidence > 30)

\* ReportingService._get_suggested_settlement_matches; `stored` lists the
\* settlements table in the order the store returns rows.
get_suggested_settlement_matches(transaction, stored) ==
    LET unmatched == SelectSeq(stored, LAMBDA s : s \in get_unmatched_settlements)
        scored == [i \in 1..Len(unmatched) |->
                     Suggestion("settlement", unmatched[i],
                                score_match(transaction, unmatched[i]))]
    IN TopSuggestions(AboveThreshold(scored))

\* ReportingService._get_suggested_transaction_matches; `stored` lists the
\* transactions table in the order the store returns rows.
get_suggested_transaction_matches(settlement, stored) ==
    LET unmatched == SelectSeq(stored, LAMBDA t : t \in get_unmatched_transactions)
        scored == [i \in 1..Len(unmatched) |->
                     Suggestion("transaction", unmatched[i],
                                score_match(unmatched[i], settlement))]
    IN TopSuggestions(AboveThreshold(scored))

\* The row of a table with a given primary key.
RowOf(table, id) == CHOOSE row \in table : row.id = id

\* ReportingService.get_discrepancies with the suggested_matches of every
\* entry; `stored_transactions` and `stored_settlements` list the two
\* tables in the order in which the store returns their rows to the SELECTs
\* of the request.
get_discrepancies_suggesting(priority, today, stored_transactions, stored_settlements) ==
    LET listed == get_discrepancies(priority, today)
        suggested_matches(d) ==
            IF d.type = "unmatched_transaction"
            THEN get_suggested_settlement_matches(RowOf(transactions, d.record.id),
                                                  stored_settlements)
            ELSE IF d.type = "unmatched_settlement"
            THEN get_suggested_transaction_matches(RowOf(settlements, d.record.id),
                                                   stored_transactions)
            ELSE << >>
    IN [listed EXCEPT !.discrepancies =
            { [type |-> d.type, record |-> d.record, age_days |-> d.age_days,
               priority |-> d.priority, suggested_matches |-> suggested_matches(d)] :
              d \in listed.discrepancies }]

\* GET /discrepancies, suggested matches included.
GetDiscrepanciesSuggesting ==
    /\ \E priority \in PriorityFilters, today \in QueryDays,
          stored_transactions \in Orderings(transactions),
          stored_settlements \in Orderings(settlements) :
         reply' = get_discrepancies_suggesting(priority, today, stored_transactions,
                                               stored_settlements)
    /\ UNCHANGED <<transactions, settlements, adjustments, settings, match_results, run>>

\* The most settlements a store of the suggestions holds.
MaxSuggestionRows == 4
\* Settlements of the suggestions: four that no phase matches to txn_0001
\* and that score 40, 40, 80 and 55 against it, and the settlement phase 1
\* matches to it.
SuggestionSettlements ==
    { Stl(17, NoRef, 200000, "MXN", 15),
      Stl(18, NoRef, 300000, "MXN", 16),
      Stl(19, NoRef, 100000, "MXN", 12),
      Stl(20, NoRef, 104000, "MXN", 22),
      Stl(1, txn_0001, 100000, "MXN", 15) }
\* A transaction ten days after txn_0001, against which the first two of
\* these settlements score 20.
LateTransaction == Txn(2, txn_0002, order_X, 100000, "MXN", At(25, 10), "captured")

InitSuggestions ==
    /\ transactions \in { { Txn(1, txn_0001, order_A, 100000, "MXN", At(15, 10), "captured") },
                          { Txn(1, txn_0001, order_A, 100000, "MXN", At(15, 10), "captured"),
                            LateTransaction } }
    /\ settlements \in { S \in SUBSET SuggestionSettlements :
                           Cardinality(S) <= MaxSuggestionRows }
    /\ adjustments = {}
    /\ settings = [MIN_CONFIDENCE_FOR_AUTO_MATCH |-> DEFAULT_MIN_CONFIDENCE]
    /\ match_results = {}
    /\ run = [r \in Requests |-> IdleRun]
    /\ reply = NoReply

\* Runs, and reports asked for between their steps.
NextSuggestions ==
    \/ Next
    \/ GetDiscrepanciesSuggesting

SpecSuggestions == InitSuggestions /\ [][NextSuggestions]_vars

(***************************************************************************)
(* Stores for the adjustments: the pool's transactions and adjustments     *)
(* and the refund that comes too late (scenario S5).                       *)
(***************************************************************************)
txn_0005 == <<"t", "x", "n", "_", "0", "0", "0", "5">>
order_E == <<"o", "r", "d", "e", "r", "_", "E">>
\* S5: a transaction of 2024-01-01 and its refund 45 days later.
S5_Transaction == Txn(8, txn_0005, order_E, 20000, "MXN", At(1, 10), "captured")
S5_Refund == Adj(6, txn_0005, 20000, "MXN", "refund", 46)

InitAdjustments ==
    /\ transactions \in { S \in SUBSET (TransactionPool \cup {S5_Transaction}) :
                            Cardinality(S) <= MaxRows }
    /\ settlements \in SUBSET { Stl(1, txn_0001, 100000, "MXN", 15) }
    /\ adjustments \in { S \in SUBSET (AdjustmentPool \cup {S5_Refund}) :
                           Cardinality(S) <= MaxRows }
    /\ settings = [MIN_CONFIDENCE_FOR_AUTO_MATCH |-> DEFAULT_MIN_CONFIDENCE]
    /\ match_results = {}
    /\ run = [r \in Requests |-> IdleRun]
    /\ reply = NoReply

\* Runs and reads over the stores of adjustments.
SpecAdjustments == InitAdjustments /\ [][NextQueries]_vars

(***************************************************************************)
(* Runs whose loads are observed: the lists the three SELECTs returned,    *)
(* in their order, are kept beside the run, over stores in which several   *)
(* transactions are candidates of one settlement or adjustment.            *)
(***************************************************************************)
txn_0009 == <<"t", "x", "n", "_", "0", "0", "0", "9">>
\* A second transaction of merchant order order_X, equal to txn_0002 in
\* amount and time.
TwinTransaction == Txn(9, txn_0009, order_X, 100000, "MXN", At(15, 10), "captured")
TieTransactions ==
    { Txn(1, txn_0001, order_A, 100000, "MXN", At(15, 10), "captured"),
      Txn(2, txn_0002, order_X, 100000, "MXN", At(15, 10), "captured"),
      TwinTransaction }
\* Settlements with several candidates: by amount and date (phase 2), by
\* merchant order (phase 3), across currencies without and with a reference
\* (phase 4).
TieSettlements ==
    { Stl(3, NoRef, 100000, "MXN", 16),
      Stl(4, order_X, 103000, "MXN", 25),
      Stl(16, NoRef, 5800, "USD", 16),
      Stl(5, txn_0001, 5800, "USD", 16) }
\* Adjustments with several candidates (by merchant order) and with one.
TieAdjustments ==
    { Adj(7, order_X, 20000, "MXN", "refund", 20),
      Adj(1, txn_0002, 20000, "MXN", "refund", 20) }

InitTies ==
    /\ transactions \in { S \in SUBSET TieTransactions : Cardinality(S) <= MaxRows }
    /\ settlements \in { S \in SUBSET TieSettlements : Cardinality(S) <= MaxRows }
    /\ adjustments \in { S \in SUBSET TieAdjustments : Cardinality(S) <= MaxRows }
    /\ settings = [MIN_CONFIDENCE_FOR_AUTO_MATCH |-> DEFAULT_MIN_CONFIDENCE]
    /\ match_results = {}
    /\ run = [r \in Requests |-> IdleRun]
    /\ reply = NoReply

\* LoadAndMatch(r), the lists of the three loads kept in `reply`.
LoadAndMatchObserved(r) ==
    /\ run[r].pc = "load"
    /\ \E txns \in Orderings(SelectTransactions(run[r].date_from, run[r].date_to)),
          stls \in Orderings(SelectSettlements(run[r].date_from, run[r].date_to)),
          adjs \in Orderings(SelectAdjustments(run[r].date_from, run[r].date_to)) :
         /\ run' = [run EXCEPT
                      ![r].loaded = [transactions |-> Len(txns), settlements |-> Len(stls),
                                     adjustments |-> Len(adjs)],
                      ![r].engine = RunPipeline(txns, stls, adjs, run[r].engine,
                                                settings.MIN_CONFIDENCE_FOR_AUTO_MATCH),
                      ![r].pc = "persist"]
         /\ reply' = [endpoint |-> "load", request |-> r, transactions |-> txns,
                      settlements |-> stls, adjustments |-> adjs]
    /\ UNCHANGED <<transactions, settlements, adjustments, settings, match_results>>

\* Requests served one after another, their loads observed.
NextObserved ==
    \E r \in Requests :
        \/ NoRunInProgress /\ StartRun(r) /\ reply' = NoReply
        \/ ClearPreviousMatches(r) /\ reply' = NoReply
        \/ LoadAndMatchObserved(r)
        \/ PersistMatches(r) /\ reply' = NoReply
        \/ StoreFails(r) /\ reply' = NoReply

SpecTies == InitTies /\ [][NextObserved]_vars

(***************************************************************************)
(* Calls of the currency utilities (app/utils/currency.py) on their own.   *)
(***************************************************************************)
\* The currencies of FX_RATES_TO_USD.
Currencies == {"USD", "MXN", "COP", "BRL"}
\* The largest of the small amounts converted, in cents.
MaxAmount == 30
\* The 2-decimal amounts converted, in cents: the small ones and some of
\* the size the store holds.
ConvertedAmounts == 0..MaxAmount \cup {5800, 100000, 123456}

\* The record of a call convert_currency(amount, from_currency, to_currency):
\* `original` is the amount the chain of calls started from.
ConversionCall(amount, from_currency, to_currency, original, first) ==
    [endpoint |-> "convert_currency", amount |-> amount,
     from_currency |-> from_currency, to_currency |-> to_currency,
     result |-> convert_currency_decimal(amount, from_currency, to_currency),
     original |-> original, first |-> first]

\* convert_currency(x, from_currency, to_currency)
ConvertCurrency ==
    /\ \E x \in ConvertedAmounts, from_currency \in Currencies, to_currency \in Currencies :
         reply' = ConversionCall(Frac(x, 1), from_currency, to_currency, Frac(x, 1), TRUE)
    /\ UNCHANGED <<transactions, settlements, adjustments, settings, match_results, run>>

\* convert_currency(y, 'USD', c) on the result y of convert_currency(x, c, 'USD')
ConvertBack ==
    /\ reply.endpoint = "convert_currency"
    /\ reply.first
    /\ reply.to_currency = "USD"
    /\ reply' = ConversionCall(reply.result, "USD", reply.from_currency, reply.original, FALSE)
    /\ UNCHANGED <<transactions, settlements, adjustments, settings, match_results, run>>

NextCurrency == ConvertCurrency \/ ConvertBack

\* The utilities are called on an empty store.
InitCurrency ==
    /\ transactions = {} /\ settlements = {} /\ adjustments = {}
    /\ settings = [MIN_CONFIDENCE_FOR_AUTO_MATCH |-> DEFAULT_MIN_CONFIDENCE]
    /\ match_results = {}
    /\ run = [r \in Requests |-> IdleRun]
    /\ reply = NoReply

SpecCurrency == InitCurrency /\ [][NextCurrency]_vars

(***************************************************************************)
(* Properties.                                                             *)
(***************************************************************************)
Range(list) == { list[k] : k \in 1..Len(list) }

\* The MatchResults request r has emitted.
Emitted(r) == Range(run[r].engine.matches)

\* The columns of a MatchResult that two rows are compared on (no primary
\* key, no created_at).
Content(m) ==
    [transaction_id |-> m.transaction_id, settlement_id |-> m.settlement_id,
     adjustment_id |-> m.adjustment_id, match_type |-> m.match_type,
     confidence_score |-> m.confidence_score, match_reasons |-> m.match_reasons,
     amount_difference |-> m.amount_difference,
     date_difference_days |-> m.date_difference_days, status |-> m.status]

TableContent(rows) == { Content(x.match) : x \in rows }

\* The phases of request r have run.
Matched(r) == run[r].pc \in {"persist", "done"}

\* Request r is the last one that has arrived.
Latest(r) == run[r].pc # "idle" /\ \A q \in Requests : q > r => run[q].pc = "idle"

SettlementRows == { x \in match_results : x.match.settlement_id # NoId }
AdjustmentRows == { x \in match_results : x.match.adjustment_id # NoId }

\* The candidates request r loads.
LoadedTransactions(r) == SelectTransactions(run[r].date_from, run[r].date_to)
LoadedSettlements(r) == SelectSettlements(run[r].date_from, run[r].date_to)

\* C1: with requests served one after another, in every state of the match
\* table no settlement id occurs in two stored MatchResults and no adjustment
\* id occurs in two stored MatchResults.
C1_SettlementAndAdjustmentIdsUnique ==
    /\ \A x, y \in SettlementRows :
         x # y => x.match.settlement_id # y.match.settlement_id
    /\ \A x, y \in AdjustmentRows :
         x # y => x.match.adjustment_id # y.match.adjustment_id

\* A second run in a row has completed and the table holds two settlement
\* matches and an adjustment match.
C1_Witness ==
    /\ \E r \in Requests : r > 1 /\ run[r].pc = "done" /\ run[r - 1].pc = "done"
    /\ Cardinality(SettlementRows) >= 2
    /\ AdjustmentRows # {}

\* C2: no transaction id occurs in two stored MatchResults that have a
\* settlement_id (requests served one after another).
C2_OneSettlementMatchPerTransaction ==
    \A x, y \in SettlementRows : x # y => x.match.transaction_id # y.match.transaction_id

\* Two settlements of the store carry the transaction_id of the same captured
\* transaction, in its currency, and a completed run has stored a settlement
\* match of that transaction.
C2_Witness ==
    \E r \in Requests, t \in transactions, s1, s2 \in settlements :
        /\ run[r].pc = "done"
        /\ s1 # s2
        /\ {s1, s2} \subseteq LoadedSettlements(r)
        /\ Phase1Condition(s1, t) /\ Phase1Condition(s2, t)
        /\ \E x \in SettlementRows : x.match.transaction_id = t.id

\* C3 (as claimed): no transaction id occurs in two stored MatchResults that
\* have an adjustment_id.
C3_OneAdjustmentMatchPerTransaction ==
    \A x, y \in AdjustmentRows : x # y => x.match.transaction_id # y.match.transaction_id

\* C4 (as claimed): every MatchResult emitted by phases 1, 2, 3 and 5 has
\* status matched exactly when its confidence is at least
\* MIN_CONFIDENCE_FOR_AUTO_MATCH, and pending_review otherwise.
C4_StatusFollowsSetting ==
    \A r \in Requests : \A m \in Emitted(r) :
        m.phase # 4 =>
            /\ m.status = "matched"
                 <=> m.confidence_score >= settings.MIN_CONFIDENCE_FOR_AUTO_MATCH
            /\ m.status \in {"matched", "pending_review"}

\* Settlement matches request r emitted after phase 1.
LaterSettlementMatches(r) == { m \in Emitted(r) : m.phase \in {2, 3, 4} }

\* C5 (as claimed): when a loaded transaction t and a loaded settlement s
\* satisfy the phase 1 condition, no phase after phase 1 emits a settlement
\* match that involves t or involves s.
C5_PhaseDominanceAsClaimed ==
    \A r \in Requests : Matched(r) =>
        \A t \in LoadedTransactions(r), s \in LoadedSettlements(r) :
            Phase1Condition(s, t) =>
                \A m \in LaterSettlementMatches(r) :
                    m.transaction_id # t.id /\ m.settlement_id # s.id

\* C5 (amended): when a loaded transaction t and a loaded settlement s
\* satisfy the phase 1 condition, no phase after phase 1 emits a settlement
\* match that involves t, and none that involves s if s is the settlement
\* phase 1 matched to t.
C5_PhaseDominance ==
    \A r \in Requests : Matched(r) =>
        \A t \in LoadedTransactions(r), s \in LoadedSettlements(r) :
            Phase1Condition(s, t) =>
                \A m \in LaterSettlementMatches(r) :
                    /\ m.transaction_id # t.id
                    /\ (\E m1 \in Emitted(r) : /\ m1.phase = 1
                                               /\ m1.transaction_id = t.id
                                               /\ m1.settlement_id = s.id)
                          => m.settlement_id # s.id

\* Phase 1 has matched a pair and a later phase has emitted a settlement
\* match in the same run.
C5_Witness ==
    \E r \in Requests :
        /\ Matched(r)
        /\ \E m1 \in Emitted(r) : m1.phase = 1
        /\ LaterSettlementMatches(r) # {}

\* C6 (as claimed): two runs over the same stored records and the same date
\* range emit the same set of MatchResults.
C6_Determinism ==
    \A r1, r2 \in Requests :
        ( /\ Matched(r1) /\ Matched(r2)
          /\ run[r1].date_from = run[r2].date_from
          /\ run[r1].date_to = run[r2].date_to )
        => TableContent(NewRows(r1, run[r1].engine.matches))
             = TableContent(NewRows(r2, run[r2].engine.matches))

\* C7 (as claimed): when a run completes right after a completed run with the
\* same date range, the match table has the content it had after the first.
C7_IdempotentRun ==
    \A r \in Requests :
        ( /\ r > 1 /\ Latest(r)
          /\ run[r].pc = "done" /\ run[r - 1].pc = "done"
          /\ run[r].date_from = run[r - 1].date_from
          /\ run[r].date_to = run[r - 1].date_to )
        => TableContent(match_results) = TableContent(run[r].table_before)

\* C8 (as claimed): a run in which a store call failed is answered as a
\* failure and leaves the match table as it was when the run started.
C8_FailedRunChangesNothing ==
    \A r \in Requests :
        (Latest(r) /\ run[r].pc = "failed")
        => /\ run[r].response.status = 500
           /\ match_results = run[r].table_before

\* C9 (as claimed): once concurrent runs have all completed, the match table
\* holds the rows of the run that committed last and nothing else, and no
\* settlement or adjustment id occurs twice in it.
C9_LastWriterWins ==
    (\A r \in Requests : run[r].pc = "done")
    => /\ \A r \in Requests :
            run[r].commit_order = MaxRequests
            => match_results = NewRows(r, run[r].engine.matches)
       /\ \A x, y \in match_results :
            x # y => \/ x.match.settlement_id # y.match.settlement_id
                     \/ x.match.adjustment_id # y.match.adjustment_id

\* C10: every emitted MatchResult has a confidence between 0 and 100, a
\* non-negative amount difference and a non-negative date difference.
C10_Ranges ==
    \A r \in Requests : \A m \in Emitted(r) :
        /\ 0 <= m.confidence_score /\ m.confidence_score <= 100
        /\ m.amount_difference >= 0
        /\ m.date_difference_days >= 0

\* One run has emitted a phase 2 match with the full amount and date bonuses
\* and a phase 5 match with both penalties.
C10_Witness ==
    \E r \in Requests :
        /\ \E m \in Emitted(r) : m.phase = 2 /\ m.confidence_score = 100
        /\ \E m \in Emitted(r) :
             /\ m.phase = 5
             /\ m.confidence_score = 70
             /\ {"currency_mismatch", "adjustment_exceeds_transaction"}
                  \subseteq Range(m.match_reasons)

\* The transactions of every status whose timestamp lies in the date range
\* of request r.
StoredTransactionsInRange(r) ==
    { t \in transactions :
        /\ run[r].date_from # NoDate => t.timestamp >= StartOfDay(run[r].date_from)
        /\ run[r].date_to # NoDate => t.timestamp < StartOfDay(run[r].date_to + 1) }
LoadedAdjustments(r) == SelectAdjustments(run[r].date_from, run[r].date_to)

\* The transaction an adjustment names, by transaction_id or else by
\* merchant_order_id, inside the window of the adjustment's type.
AdjustmentNames(a, t) ==
    /\ HasReference(a)
    /\ \/ a.transaction_reference = t.transaction_id
       \/ a.transaction_reference = t.merchant_order_id
    /\ days_between(a.date, DateOf(t.timestamp)) <= AdjustmentWindow(a)

\* C11 (as claimed): phase 5 matches an adjustment to the transaction it
\* names inside the window whatever the status of that transaction, and the
\* settlement matches of phases 1 to 4 are on captured transactions only.
C11_Phase5ScansEveryStatus ==
    \A r \in Requests : Matched(r) =>
        /\ \A a \in LoadedAdjustments(r), t \in StoredTransactionsInRange(r) :
             AdjustmentNames(a, t) =>
                \E m \in Emitted(r) : /\ m.phase = 5
                                      /\ m.adjustment_id = a.id
                                      /\ m.transaction_id = t.id
        /\ \A m \in Emitted(r) : m.phase # 5 =>
             \E t \in transactions : t.id = m.transaction_id /\ t.status = "captured"

\* The phase 1 matches of request r.
Phase1Matches(r) == { m \in Emitted(r) : m.phase = 1 }

\* C12: every phase 1 match links a loaded settlement that has a reference
\* to the loaded (captured) transaction whose transaction_id is that
\* reference, in the same currency, with confidence 100, status matched and
\* the reasons [exact_transaction_id_match, currency_match], whatever the
\* amounts and dates, and both ids are in the exclusion sets; and whenever a
\* loaded pair satisfies the phase 1 condition the transaction has a phase 1
\* match.
C12_Phase1ExactIdMatch ==
    \A r \in Requests : Matched(r) =>
        /\ \A m \in Phase1Matches(r) :
             /\ m.confidence_score = 100
             /\ m.status = "matched"
             /\ m.match_type = "transaction_settlement"
             /\ m.match_reasons = <<"exact_transaction_id_match", "currency_match">>
             /\ m.transaction_id \in run[r].engine.matched_transaction_ids
             /\ m.settlement_id \in run[r].engine.matched_settlement_ids
             /\ \E t \in LoadedTransactions(r), s \in LoadedSettlements(r) :
                  /\ t.id = m.transaction_id /\ s.id = m.settlement_id
                  /\ t.status = "captured"
                  /\ s.transaction_reference # NoRef
                  /\ s.transaction_reference = t.transaction_id
                  /\ s.currency = t.currency
                  /\ m.amount_difference = Abs(s.amount - t.amount)
                  /\ m.date_difference_days
                       = days_between(s.settlement_date, DateOf(t.timestamp))
        /\ \A t \in LoadedTransactions(r), s \in LoadedSettlements(r) :
             ( /\ s.transaction_reference # NoRef
               /\ s.transaction_reference = t.transaction_id
               /\ s.currency = t.currency )
             => \E m \in Phase1Matches(r) : m.transaction_id = t.id

\* A completed run has stored a phase 1 match of a settlement whose amount
\* and date both differ from the transaction's.
C12_Witness ==
    \E r \in Requests :
        /\ run[r].pc = "done"
        /\ \E m \in Phase1Matches(r) :
             /\ m.amount_difference > 0
             /\ m.date_difference_days > 0
             /\ \E x \in match_results : x.match = m

\* The store holds exactly the rows of `store`.
StoreIs(store) ==
    /\ transactions = store.transactions
    /\ settlements = store.settlements
    /\ adjustments = store.adjustments

\* Request r ran its phases without a date range.
MatchedAll(r) == Matched(r) /\ run[r].date_from = NoDate /\ run[r].date_to = NoDate

\* Scenario S2: the 1000.00 transaction and the 970.00 settlement without a
\* reference, two days later.
StoreS2 == Store({S2_Transaction}, {S2_Settlement}, {})

\* What a run over S2 emits when its one MatchResult has confidence c.
S2_Outcome(r, c) ==
    /\ Len(run[r].engine.matches) = 1
    /\ \A m \in Emitted(r) :
         /\ m.transaction_id = S2_Transaction.id
         /\ m.settlement_id = S2_Settlement.id
         /\ m.confidence_score = c
         /\ m.status = "matched"
         /\ m.amount_difference = 3000
         /\ m.date_difference_days = 2
         /\ "amount_variance_detected" \in Range(m.match_reasons)

\* C13 (as claimed): a run over scenario S2 emits exactly one MatchResult,
\* with confidence 88, status matched, amount_difference 30.00,
\* date_difference_days 2 and the reason amount_variance_detected.
C13_ScenarioS2AsClaimed ==
    \A r \in Requests :
        ( /\ StoreIs(StoreS2) /\ MatchedAll(r)
          /\ settings.MIN_CONFIDENCE_FOR_AUTO_MATCH = DEFAULT_MIN_CONFIDENCE )
        => S2_Outcome(r, 88)

\* C13 (amended): a run over scenario S2 emits exactly one MatchResult, with
\* confidence 86 (80 + 5 for a variance of 3% + 1 for a day difference of
\* 2), status matched, amount_difference 30.00, date_difference_days 2 and
\* the reason amount_variance_detected, when MIN_CONFIDENCE_FOR_AUTO_MATCH
\* is at most 86; it emits nothing when the setting is higher.
C13_ScenarioS2 ==
    \A r \in Requests : (StoreIs(StoreS2) /\ MatchedAll(r)) =>
        IF settings.MIN_CONFIDENCE_FOR_AUTO_MATCH <= 86
        THEN S2_Outcome(r, 86)
        ELSE run[r].engine.matches = << >>

\* A run over scenario S2 under the default settings has completed and
\* stored its match.
C13_Witness ==
    \E r \in Requests :
        /\ StoreIs(StoreS2) /\ MatchedAll(r) /\ run[r].pc = "done"
        /\ settings.MIN_CONFIDENCE_FOR_AUTO_MATCH = DEFAULT_MIN_CONFIDENCE
        /\ \E x \in match_results : x.match.settlement_id = S2_Settlement.id

\* Scenario S3: the 500.00 transaction under order_X and the 500.00
\* settlement of the next day whose reference is order_X.
StoreS3 == Store({S3_Transaction}, {S3_Settlement}, {})

\* C14 (as claimed): the MatchResult the latest run over scenario S3 stores has
\* confidence 90 and its reasons include merchant_order_id_match and
\* amount_within_tolerance.
C14_ScenarioS3AsClaimed ==
    \A r \in Requests :
        (StoreIs(StoreS3) /\ MatchedAll(r) /\ Latest(r) /\ run[r].pc = "done") =>
            \E x \in match_results :
                /\ x.match.settlement_id = S3_Settlement.id
                /\ x.match.confidence_score = 90
                /\ {"merchant_order_id_match", "amount_within_tolerance"}
                     \subseteq Range(x.match.match_reasons)

\* C14 (amended): the latest run over scenario S3 stores one MatchResult; it
\* is emitted by phase 2, before phase 3 sees the pair, with confidence 98
\* (80 + 15 for equal amounts + 3 for a day difference of 1), status
\* matched and the reasons [amount_within_tolerance, date_within_window],
\* for every setting of MIN_CONFIDENCE_FOR_AUTO_MATCH up to 98.
C14_ScenarioS3 ==
    \A r \in Requests :
        ( /\ StoreIs(StoreS3) /\ MatchedAll(r) /\ Latest(r) /\ run[r].pc = "done"
          /\ settings.MIN_CONFIDENCE_FOR_AUTO_MATCH <= 98 ) =>
            /\ Cardinality(match_results) = 1
            /\ \A x \in match_results :
                 /\ x.match.transaction_id = S3_Transaction.id
                 /\ x.match.settlement_id = S3_Settlement.id
                 /\ x.match.phase = 2
                 /\ x.match.confidence_score = 98
                 /\ x.match.status = "matched"
                 /\ x.match.match_reasons
                      = <<"amount_within_tolerance", "date_within_window">>
                 /\ x.match.amount_difference = 0
                 /\ x.match.date_difference_days = 1

\* A run over scenario S3 has completed and stored a match of its settlement.
C14_Witness ==
    \E r \in Requests :
        /\ StoreIs(StoreS3) /\ MatchedAll(r) /\ Latest(r) /\ run[r].pc = "done"
        /\ \E x \in match_results : x.match.settlement_id = S3_Settlement.id

\* Scenario S4: the 17500.00 MXN transaction and the 1000.00 USD settlement
\* of the next day whose reference is its transaction_id.
StoreS4 == Store({S4_Transaction}, {S4_Settlement}, {})

\* C15: every phase 4 match links a settlement and a transaction of
\* different currencies, has status pending_review, a confidence of at
\* least 60 and the reasons [cross_currency_match,
\* amount_within_fx_tolerance, needs_review]; a run over scenario S4 emits
\* one match, by phase 4, with confidence 95 and status pending_review.
C15_Phase4AlwaysPendingReview ==
    \A r \in Requests : Matched(r) =>
        /\ \A m \in Emitted(r) : m.phase = 4 =>
             /\ m.status = "pending_review"
             /\ m.confidence_score >= 60
             /\ m.match_reasons
                  = <<"cross_currency_match", "amount_within_fx_tolerance", "needs_review">>
             /\ \E t \in LoadedTransactions(r), s \in LoadedSettlements(r) :
                  /\ t.id = m.transaction_id /\ s.id = m.settlement_id
                  /\ s.currency # t.currency
        /\ StoreIs(StoreS4) =>
             /\ Len(run[r].engine.matches) = 1
             /\ \A m \in Emitted(r) :
                  /\ m.phase = 4
                  /\ m.transaction_id = S4_Transaction.id
                  /\ m.settlement_id = S4_Settlement.id
                  /\ m.confidence_score = 95
                  /\ m.status = "pending_review"

\* A run over scenario S4 has completed and stored a phase 4 match whose
\* confidence is above every threshold of the settings.
C15_Witness ==
    \E r \in Requests :
        /\ StoreIs(StoreS4) /\ run[r].pc = "done"
        /\ \E x \in match_results :
             /\ x.match.phase = 4
             /\ x.match.confidence_score > settings.MIN_CONFIDENCE_FOR_AUTO_MATCH
             /\ x.match.confidence_score >= STATUS_THRESHOLD

\* The settlement matches (phases 1 to 4) of request r.
SettlementMatches(r) == { m \in Emitted(r) : m.phase # 5 }

\* C16: after the phases of a run the matched-transaction and
\* matched-settlement sets hold the ids of the settlement matches of phases
\* 1 to 4 and nothing phase 5 added; every loaded adjustment that names a
\* loaded transaction inside its window gets a match, whether or not that
\* transaction has a settlement match; and the unmatched_transactions count
\* of the response is the number of loaded transactions minus the number of
\* transactions with a settlement match.
C16_Phase5LeavesSettlementSets ==
    \A r \in Requests : Matched(r) =>
        /\ run[r].engine.matched_transaction_ids
             = { m.transaction_id : m \in SettlementMatches(r) }
        /\ run[r].engine.matched_settlement_ids
             = { m.settlement_id : m \in SettlementMatches(r) }
        /\ \A a \in LoadedAdjustments(r), t \in LoadedTransactions(r) :
             AdjustmentNames(a, t) =>
                \E m \in Emitted(r) : m.phase = 5 /\ m.adjustment_id = a.id
        /\ run[r].pc = "done" =>
             run[r].response.unmatched_transactions
               = run[r].loaded.transactions
                   - Cardinality({ m.transaction_id : m \in SettlementMatches(r) })

\* A completed run has stored a settlement match and an adjustment match of
\* the same transaction.
C16_Witness ==
    /\ \E r \in Requests :
         /\ run[r].pc = "done"
         /\ \E m \in SettlementMatches(r), n \in Emitted(r) :
              /\ n.phase = 5 /\ n.transaction_id = m.transaction_id
              /\ \E x, y \in match_results : x.match = m /\ y.match = n

\* The settlement amount as the tolerance check of the pair's phase sees it:
\* converted to the transaction's currency when the currencies differ.
ComparedAmount(s, t) == convert_currency(s.amount, s.currency, t.currency)

\* The matches of phases 2, 3 and 4 of request r that link s and t.
ToleranceMatches(r, s, t) ==
    { m \in Emitted(r) : /\ m.phase \in {2, 3, 4}
                         /\ m.settlement_id = s.id
                         /\ m.transaction_id = t.id }

\* C20: for every loaded transaction and settlement, the tolerance check
\* divides by a positive amount only; a pair of two zero amounts has a
\* difference of 0% and, when phase 2, 3 or 4 matches it, the match carries
\* the bonus of an exact amount; a pair of a zero transaction amount and a
\* positive settlement amount is skipped and no match of phases 2, 3 and 4
\* links it; and a store of one zero pair gets that pair matched.
C20_ZeroAmounts ==
    \A r \in Requests : Matched(r) =>
        \A t \in LoadedTransactions(r), s \in LoadedSettlements(r) :
            LET other == ComparedAmount(s, t)
                check == AmountDiffPercent(t.amount, other)
            IN /\ other.den > 0
               /\ check.percent.den > 0
               /\ (t.amount = 0 /\ s.amount = 0) =>
                    /\ ~check.skip
                    /\ check.percent.num = 0
                    /\ \A m \in ToleranceMatches(r, s, t) :
                         /\ m.amount_difference = 0
                         /\ m.phase = 2 => m.confidence_score >= 80 + 15
                         /\ m.phase = 3 => m.confidence_score >= 70 + 15
                         /\ m.phase = 4 => m.confidence_score >= 60 + 15
                    /\ (LoadedTransactions(r) = {t} /\ LoadedSettlements(r) = {s})
                         => ToleranceMatches(r, s, t) # {}
               /\ (t.amount = 0 /\ s.amount > 0) =>
                    /\ check.skip
                    /\ ToleranceMatches(r, s, t) = {}

\* A completed run has stored the match of a transaction and a settlement
\* whose amounts are both zero.
C20_Witness ==
    \E r \in Requests, t \in transactions, s \in settlements :
        /\ run[r].pc = "done"
        /\ t.amount = 0 /\ s.amount = 0
        /\ \E m \in ToleranceMatches(r, s, t) : \E x \in match_results : x.match = m

\* C19 (as claimed): the three exclusion sets are empty when a call of
\* run_reconciliation starts, also a call on an engine that has run before,
\* so that whenever a loaded settlement and a loaded transaction satisfy the
\* phase 1 condition the transaction gets its phase 1 match.
C19_ExclusionSetsRunLocal ==
    \A r \in Requests :
        /\ run[r].pc \in {"clear", "load"} =>
             /\ run[r].engine.matched_transaction_ids = {}
             /\ run[r].engine.matched_settlement_ids = {}
             /\ run[r].engine.matched_adjustment_ids = {}
        /\ Matched(r) =>
             \A t \in LoadedTransactions(r), s \in LoadedSettlements(r) :
                 (HasReference(s) /\ Phase1Condition(s, t))
                 => \E m \in Phase1Matches(r) : m.transaction_id = t.id


\* The rows of the match table that belong to the transaction with this
\* transaction_id.
MatchRowsOf(transaction_id) ==
    { x \in match_results :
        \E t \in transactions : /\ t.transaction_id = transaction_id
                                /\ x.match.transaction_id = t.id }

\* C18: GET /matches/{transaction_id} answers, in every state of the match
\* table that reconciliation runs reach, with 404 when the transaction or a
\* match of it does not exist and otherwise with status 200 and exactly one
\* MatchResult, the settlement-side match of the transaction: also when the
\* transaction has adjustment matches beside the settlement match.
C18_SingleSettlementMatchOr404 ==
    reply.endpoint = "GET /matches/{transaction_id}" =>
        IF MatchRowsOf(reply.transaction_id) = {}
        THEN reply.status = 404
        ELSE /\ reply.status = 200
             /\ Cardinality(reply.matches) = 1
             /\ \A x \in reply.matches :
                  /\ x \in MatchRowsOf(reply.transaction_id)
                  /\ (\E y \in MatchRowsOf(reply.transaction_id) : y.match.settlement_id # NoId)
                         => x.match.settlement_id # NoId


\* C17: every discrepancy GET /discrepancies reports, in each of the four
\* categories, carries the priority of the rule: high if the amount in USD
\* exceeds 1000 or age_days exceeds 7, else medium if the amount in USD
\* exceeds 100 or age_days exceeds 3, else low; an unmatched adjustment is
\* always high.  For an amount mismatch the amount may be any of the three
\* the entry reports: the transaction's, the settlement's or the difference.
C17_PriorityOfEveryDiscrepancy ==
    reply.endpoint = "GET /discrepancies" =>
        \A d \in reply.discrepancies :
            CASE d.type = "unmatched_adjustment" -> d.priority = "high"
              [] d.type = "amount_mismatch" ->
                   d.priority \in
                       { calculate_priority(d.record.transaction_amount, d.record.currency,
                                            d.age_days, FALSE),
                         calculate_priority(d.record.settlement_amount,
                                            d.record.settlement_currency, d.age_days, FALSE),
                         calculate_priority(d.record.difference, d.record.currency,
                                            d.age_days, FALSE) }
              [] OTHER ->
                   d.priority = calculate_priority(d.record.amount, d.record.currency,
                                                   d.age_days, FALSE)


\* C21: for every 2-decimal amount x and every currency c of the FX table,
\* converting x from c to USD and the result back from USD to c yields x;
\* converting to the same currency returns the amount unchanged; converting
\* to USD returns amount * rate(c).  The conversion the matching phases use
\* on whole cents gives the same Decimal.
C21_CurrencyPivotRoundTrip ==
    reply.endpoint = "convert_currency" =>
        /\ reply.from_currency = reply.to_currency => reply.result = reply.amount
        /\ (reply.first /\ reply.to_currency = "USD") =>
               /\ FxRateUnit % reply.result.den = 0
               /\ reply.result.num * (FxRateUnit \div reply.result.den)
                      = reply.amount.num * FX_RATES_TO_USD(reply.from_currency)
        /\ ~reply.first =>
               /\ reply.from_currency = "USD"
               /\ SameDecimal(reply.result, reply.original)
        /\ reply.first =>
               SameDecimal(reply.result,
                           convert_currency(reply.amount.num, reply.from_currency,
                                            reply.to_currency))

\* An amount in MXN whose value in USD is not a whole number of cents has
\* been converted to USD and back.
C21_Witness ==
    /\ reply.endpoint = "convert_currency"
    /\ ~reply.first
    /\ reply.to_currency = "MXN"
    /\ reply.amount.den > 1
    /\ reply.original.num > 0


\* The transactions a table of match rows links to a settlement.
SettledIn(table) ==
    { x.match.transaction_id : x \in { y \in table : y.match.settlement_id # NoId } }

\* C22: a read of the match table made while a reconciliation run is between
\* its clear and its save observes the complete set of MatchResults of the
\* previous run (the new set is not written yet), never the emptied table:
\* GET /discrepancies then reports no transaction as unmatched that the
\* previous run had matched to a settlement.
C22_ReaderNeverSeesClearedTable ==
    (reply.endpoint = "GET /discrepancies" /\ reply.priority = NoPriority) =>
        \A r \in Requests :
            run[r].pc \in {"load", "persist"} =>
                /\ match_results = run[r].table_before
                /\ \A d \in reply.discrepancies :
                     d.type = "unmatched_transaction" =>
                         d.record.id \notin SettledIn(run[r].table_before)


\* C23: every Phase 2 match links a loaded settlement and a loaded captured
\* transaction of the same currency whose amounts differ by at most
\* AMOUNT_TOLERANCE_PERCENT of the transaction amount and whose instants
\* (the settlement date at 00:00, the transaction timestamp) are at most
\* SETTLEMENT_WINDOW_HOURS apart; its confidence is 80, plus 15 for equal
\* amounts, else 10 for a difference of at most 1%, else 5 for at most 5%,
\* plus 5 for a day difference of 0, else 3 for at most 1, else 1 for at
\* most 2; and that confidence is at least MIN_CONFIDENCE_FOR_AUTO_MATCH.
C23_Phase2Match ==
    \A r \in Requests :
        Matched(r) =>
            \A m \in Emitted(r) :
                m.phase = 2 =>
                    \E t \in LoadedTransactions(r), s \in LoadedSettlements(r) :
                        LET diff == Abs(s.amount - t.amount)
                            days == Abs(s.settlement_date - DateOf(t.timestamp))
                            amount_bonus == IF diff = 0 THEN 15
                                            ELSE IF diff * 100 <= t.amount THEN 10
                                            ELSE IF diff * 100 <= 5 * t.amount THEN 5
                                            ELSE 0
                            date_bonus == IF days = 0 THEN 5
                                          ELSE IF days <= 1 THEN 3
                                          ELSE IF days <= 2 THEN 1
                                          ELSE 0
                        IN /\ t.id = m.transaction_id /\ s.id = m.settlement_id
                           /\ m.adjustment_id = NoId
                           /\ t.status = "captured"
                           /\ s.currency = t.currency
                           /\ diff * 100 <= AMOUNT_TOLERANCE_PERCENT * t.amount
                           /\ Abs(s.settlement_date * HoursPerDay - t.timestamp)
                                  <= SETTLEMENT_WINDOW_HOURS
                           /\ m.confidence_score = 80 + amount_bonus + date_bonus
                           /\ m.confidence_score >= settings.MIN_CONFIDENCE_FOR_AUTO_MATCH

\* A completed run has stored a Phase 2 match with an amount variance and a
\* day difference of 2.
C23_Witness ==
    \E r \in Requests :
        /\ run[r].pc = "done"
        /\ \E m \in Emitted(r) :
             /\ m.phase = 2 /\ m.amount_difference > 0 /\ m.date_difference_days = 2
             /\ \E x \in match_results : x.match = m


\* C24: every Phase 3 match links a loaded settlement that has a
\* transaction_reference and a loaded captured transaction of the same
\* currency, neither of them matched by phase 1 or 2 of the run; the base
\* score is 75 when the reference equals the merchant_order_id, else 70 when
\* the first 8 characters of one identifier occur in the other (both at
\* least 8 long); the amounts differ by at most AMOUNT_TOLERANCE_PERCENT of
\* the transaction amount; the confidence is the base plus 15 for equal
\* amounts or plus 10 for a difference of at most 2%; amount_within_tolerance
\* is among the reasons; the status is matched iff the confidence is at
\* least 80, else pending_review.
C24_Phase3Match ==
    \A r \in Requests :
        Matched(r) =>
            \A m \in Emitted(r) :
                m.phase = 3 =>
                    \E t \in LoadedTransactions(r), s \in LoadedSettlements(r) :
                        LET ref == s.transaction_reference
                            tid == t.transaction_id
                            partial == /\ Len(ref) >= 8 /\ Len(tid) >= 8
                                       /\ \/ IsSubstring(SubSeq(ref, 1, 8), tid)
                                          \/ IsSubstring(SubSeq(tid, 1, 8), ref)
                            base == IF ref = t.merchant_order_id THEN 75
                                    ELSE IF partial THEN 70 ELSE 0
                            diff == Abs(s.amount - t.amount)
                            bonus == IF diff = 0 THEN 15
                                     ELSE IF diff * 100 <= 2 * t.amount THEN 10 ELSE 0
                        IN /\ t.id = m.transaction_id /\ s.id = m.settlement_id
                           /\ m.adjustment_id = NoId
                           /\ ref # NoRef
                           /\ t.status = "captured"
                           /\ s.currency = t.currency
                           /\ \A e \in Emitted(r) :
                                e.phase \in {1, 2} =>
                                    e.transaction_id # t.id /\ e.settlement_id # s.id
                           /\ base > 0
                           /\ diff * 100 <= AMOUNT_TOLERANCE_PERCENT * t.amount
                           /\ m.confidence_score = base + bonus
                           /\ "amount_within_tolerance" \in Range(m.match_reasons)
                           /\ m.status = IF m.confidence_score >= 80 THEN "matched"
                                         ELSE "pending_review"

\* A completed run has stored a Phase 3 match by merchant_order_id that is
\* left for review.
C24_Witness ==
    \E r \in Requests :
        /\ run[r].pc = "done"
        /\ \E m \in Emitted(r) :
             /\ m.phase = 3 /\ m.status = "pending_review"
             /\ "merchant_order_id_match" \in Range(m.match_reasons)
             /\ \E x \in match_results : x.match = m


\* The loaded transactions that adjustment a names, by transaction_id or by
\* merchant_order_id, and that lie within its window of 90 days (chargeback)
\* or 30 days (refund).
CandidatesInWindow(r, a) ==
    { t \in LoadedTransactions(r) :
        /\ a.transaction_reference # NoRef
        /\ \/ a.transaction_reference = t.transaction_id
           \/ a.transaction_reference = t.merchant_order_id
        /\ Abs(a.date - DateOf(t.timestamp))
               <= (IF a.type = "chargeback" THEN 90 ELSE 30) }

\* C25: every Phase 5 match links a loaded adjustment to a loaded
\* transaction that its transaction_reference names, by transaction_id (base
\* 100) or else by merchant_order_id (base 90), at most 90 days away for a
\* chargeback and 30 for a refund; its confidence is the base minus 20 if
\* the currencies differ and minus 10 if the adjustment amount exceeds the
\* transaction amount.  A loaded adjustment with no such transaction gets no
\* MatchResult, and GET /discrepancies after the run lists it as an
\* unmatched_adjustment of priority high.
C25_Phase5Match ==
    \A r \in Requests :
        Matched(r) =>
            /\ \A m \in Emitted(r) :
                 m.phase = 5 =>
                     \E a \in LoadedAdjustments(r) : \E t \in CandidatesInWindow(r, a) :
                         LET base == IF a.transaction_reference = t.transaction_id
                                     THEN 100 ELSE 90
                         IN /\ a.id = m.adjustment_id /\ t.id = m.transaction_id
                            /\ m.settlement_id = NoId
                            /\ m.confidence_score =
                                   base - (IF a.currency # t.currency THEN 20 ELSE 0)
                                        - (IF a.amount > t.amount THEN 10 ELSE 0)
            /\ \A a \in LoadedAdjustments(r) :
                 CandidatesInWindow(r, a) = {} =>
                     /\ \A m \in Emitted(r) : m.adjustment_id # a.id
                     /\ (/\ run[r].pc = "done" /\ Latest(r)
                         /\ reply.endpoint = "GET /discrepancies"
                         /\ reply.priority \in {NoPriority, "high"}) =>
                            \E d \in reply.discrepancies :
                                /\ d.type = "unmatched_adjustment"
                                /\ d.record.id = a.id
                                /\ d.priority = "high"

\* Scenario S5: a run over the whole store has loaded the transaction and
\* the refund dated 45 days after it, and the report asked for afterwards
\* lists the refund as an unmatched adjustment.
C25_Witness ==
    \E r \in Requests :
        /\ run[r].pc = "done" /\ Latest(r)
        /\ S5_Transaction \in LoadedTransactions(r)
        /\ S5_Refund \in LoadedAdjustments(r)
        /\ reply.endpoint = "GET /discrepancies"
        /\ \E d \in reply.discrepancies :
             d.type = "unmatched_adjustment" /\ d.record.id = S5_Refund.id


\* The transactions that the settlement matches before position k of the
\* run's list of matches had taken.
TakenBefore(r, k) ==
    { run[r].engine.matches[j].transaction_id :
        j \in { i \in 1..(k - 1) : run[r].engine.matches[i].settlement_id # NoId } }

\* What the inner loop of the phase of match m makes of transaction t as a
\* first candidate, the transactions of `taken` being matched already.
CandidateScore(m, t, taken) ==
    LET e == [NewEngine EXCEPT !.matched_transaction_ids = taken]
    IN IF m.phase = 5
       THEN Phase5Candidate(CHOOSE a \in adjustments : a.id = m.adjustment_id, t, NoBest)
       ELSE LET s == CHOOSE x \in settlements : x.id = m.settlement_id
            IN IF m.phase = 2 THEN Phase2Candidate(s, t, e, NoBest)
               ELSE IF m.phase = 3 THEN Phase3Candidate(s, t, e, NoBest)
               ELSE Phase4Candidate(s, t, e, NoBest)

\* The loads of request r have just been observed and its k-th match is one
\* of phases 2 to 5.
ChoiceObserved(r, k) ==
    /\ reply.endpoint = "load" /\ reply.request = r
    /\ k \in 1..Len(run[r].engine.matches)
    /\ run[r].engine.matches[k].phase \in 2..5

\* Positions i < j of the loaded transactions hold two candidates of the
\* k-th match that both reach its confidence.
TiedCandidates(r, k, i, j) ==
    LET m == run[r].engine.matches[k]
        first == CandidateScore(m, reply.transactions[i], TakenBefore(r, k))
        second == CandidateScore(m, reply.transactions[j], TakenBefore(r, k))
    IN /\ i < j
       /\ first.found /\ first.confidence = m.confidence_score
       /\ second.found /\ second.confidence = m.confidence_score

\* C26: the match that phase 2, 3, 4 or 5 emits for a settlement or an
\* adjustment names the eligible candidate of the highest confidence, and
\* among several of that confidence the one that comes first in the list of
\* transactions the run iterates over.
C26_FirstOfTheBestWins ==
    \A r \in Requests : \A k \in 1..Len(run[r].engine.matches) :
        ChoiceObserved(r, k) =>
            LET m == run[r].engine.matches[k]
                txns == reply.transactions
            IN \E c \in 1..Len(txns) :
                 /\ txns[c].id = m.transaction_id
                 /\ CandidateScore(m, txns[c], TakenBefore(r, k)).found
                 /\ CandidateScore(m, txns[c], TakenBefore(r, k)).confidence
                        = m.confidence_score
                 /\ \A i \in 1..Len(txns) :
                      LET other == CandidateScore(m, txns[i], TakenBefore(r, k))
                      IN other.found =>
                             /\ other.confidence <= m.confidence_score
                             /\ other.confidence = m.confidence_score => c <= i

\* A run has matched a settlement in phase 2 and an adjustment in phase 5,
\* each with two candidates of the same, highest confidence.
C26_Witness ==
    \E r \in Requests :
        /\ \E k \in 1..Len(run[r].engine.matches) :
             /\ ChoiceObserved(r, k) /\ run[r].engine.matches[k].phase = 2
             /\ \E i, j \in 1..Len(reply.transactions) : TiedCandidates(r, k, i, j)
        /\ \E k \in 1..Len(run[r].engine.matches) :
             /\ ChoiceObserved(r, k) /\ run[r].engine.matches[k].phase = 5
             /\ \E i, j \in 1..Len(reply.transactions) : TiedCandidates(r, k, i, j)


\* The suggestion entries that the counterparts of discrepancy d which are
\* unmatched now earn: for an unmatched transaction the unmatched
\* settlements, for an unmatched settlement the unmatched transactions.
EarnedSuggestions(d) ==
    IF d.type = "unmatched_transaction"
    THEN { [id |-> s.id,
            confidence |-> score_match(RowOf(transactions, d.record.id), s).confidence] :
           s \in get_unmatched_settlements }
    ELSE { [id |-> t.id,
            confidence |-> score_match(t, RowOf(settlements, d.record.id)).confidence] :
           t \in get_unmatched_transactions }

\* C27: the suggested matches of an unmatched transaction or settlement are
\* at most 3 counterparts that are unmatched now, each with the confidence
\* _score_match gives it and that confidence above 30, in descending order
\* of confidence and, at equal confidence, in ascending order of id; no
\* counterpart left out has a higher confidence than one that is listed.
C27_SuggestedMatches ==
    reply.endpoint = "GET /discrepancies" =>
        \A d \in reply.discrepancies :
            d.type \in {"unmatched_transaction", "unmatched_settlement"} =>
                LET listed == d.suggested_matches
                    entry(i) == [id |-> listed[i].record.id,
                                 confidence |-> listed[i].confidence]
                IN /\ Len(listed) <= 3
                   /\ \A i \in 1..Len(listed) :
                        /\ entry(i) \in EarnedSuggestions(d)
                        /\ listed[i].confidence > 30
                   /\ \A i, j \in 1..Len(listed) :
                        i < j =>
                            \/ listed[i].confidence > listed[j].confidence
                            \/ /\ listed[i].confidence = listed[j].confidence
                               /\ listed[i].record.id < listed[j].record.id
                   /\ \A e \in EarnedSuggestions(d) :
                        (e.confidence > 30 /\ \A i \in 1..Len(listed) : entry(i) # e) =>
                            /\ Len(listed) = 3
                            /\ \A i \in 1..Len(listed) : e.confidence <= listed[i].confidence


\* The settlement matches of run r that carry an amount variance.
VarianceMatches(r) ==
    { m \in Emitted(r) : m.settlement_id # NoId /\ m.amount_difference > 0 }

\* C28: the amount_mismatches a completed run returns is the number of
\* settlement MatchResults with amount_difference > 0 that the run stored,
\* whichever phase emitted them: the number of rows the amount-mismatch
\* query finds right after the run, and of amount_mismatch entries that GET
\* /discrepancies then lists.
C28_AmountMismatchesCountsEveryVariance ==
    \A r \in Requests :
        (run[r].pc = "done" /\ Latest(r)) =>
            /\ run[r].response.amount_mismatches = Cardinality(VarianceMatches(r))
            /\ run[r].response.amount_mismatches = Cardinality(get_amount_mismatches)
            /\ reply.endpoint = "GET /discrepancies" =>
                 run[r].response.amount_mismatches
                     = Cardinality({ d \in reply.discrepancies : d.type = "amount_mismatch" })


\* C29: when GET /discrepancies is asked for one priority (high, medium or
\* low), every discrepancy of the response, of whichever of the four types,
\* has that priority, and `total` counts those discrepancies only.
C29_PriorityFilter ==
    (reply.endpoint = "GET /discrepancies" /\ reply.priority # NoPriority) =>
        /\ \A d \in reply.discrepancies : d.priority = reply.priority
        /\ reply.total
               = Cardinality({ d \in reply.discrepancies : d.priority = reply.priority })


\* Request r is the last to have run, it completed, and it was restricted
\* to a date range.
RangedRunCompleted(r) ==
    /\ run[r].pc = "done" /\ Latest(r)
    /\ run[r].date_from # NoDate /\ run[r].date_to # NoDate

\* C30: after a completed run restricted to a date range the match table
\* holds exactly the MatchResults that run emitted: no row of an earlier run
\* is left, also none that links records outside the range; the run links
\* loaded records only, so every captured transaction, settlement and
\* adjustment outside the range is reported as unmatched afterwards.
C30_RangedRunReplacesAllMatches ==
    \A r \in Requests :
        RangedRunCompleted(r) =>
            /\ match_results = NewRows(r, run[r].engine.matches)
            /\ \A x \in run[r].table_before : x \notin match_results
            /\ \A m \in Emitted(r) :
                 /\ \E t \in LoadedTransactions(r) : t.id = m.transaction_id
                 /\ m.settlement_id # NoId =>
                        \E s \in LoadedSettlements(r) : s.id = m.settlement_id
                 /\ m.adjustment_id # NoId =>
                        \E a \in LoadedAdjustments(r) : a.id = m.adjustment_id
            /\ (reply.endpoint = "GET /discrepancies" /\ reply.priority = NoPriority) =>
                 /\ \A t \in transactions \ LoadedTransactions(r) :
                      t.status = "captured" =>
                          \E d \in reply.discrepancies :
                              d.type = "unmatched_transaction" /\ d.record.id = t.id
                 /\ \A s \in settlements \ LoadedSettlements(r) :
                      \E d \in reply.discrepancies :
                          d.type = "unmatched_settlement" /\ d.record.id = s.id
                 /\ \A a \in adjustments \ LoadedAdjustments(r) :
                      \E d \in reply.discrepancies :
                          d.type = "unmatched_adjustment" /\ d.record.id = a.id

\* An earlier run had matched a settlement dated outside the range of the
\* run that completed last, and the report asked for afterwards lists that
\* settlement as unmatched.
C30_Witness ==
    \E r \in Requests :
        /\ RangedRunCompleted(r)
        /\ reply.endpoint = "GET /discrepancies"
        /\ \E x \in run[r].table_before : \E s \in settlements \ LoadedSettlements(r) :
             /\ x.match.settlement_id = s.id
             /\ \E d \in reply.discrepancies :
                  d.type = "unmatched_settlement" /\ d.record.id = s.id

=============================================================================
